---- MODULE Spec2Model ----
(***************************************************************************)
(* URDF commit viewer: the structural parsers (parse_urdf_structure and    *)
(* URDF3DViewer.parse_urdf), the hierarchy builder of                      *)
(* create_hierarchical_diagram and the line-diff analysis of               *)
(* analyze_code_changes, as state machines over bounded inputs; further on *)
(* the viewers' extraction methods, analyze_urdf, the content providers,   *)
(* the drawings, create_diff_html, the session of main, the launcher       *)
(* run.py and the camera of the 3D viewer.                                 *)
(*                                                                         *)
(* A document is held twice: `doc` is the list of declarations its author  *)
(* wrote, `text` is the markup those declarations render to.  The parsers  *)
(* only ever read `text`; `doc` is what their result is compared with.     *)
(* The markup is a sequence of tags, the units the regular expressions of  *)
(* the source can tell apart.                                              *)
(***************************************************************************)
EXTENDS Integers, Sequences, FiniteSets, TLC

VARIABLES
    parser,     \* which parser runs: "structure", "embedded" or "standalone"
    doc,        \* the declarations of the document, in document order
    text,       \* the document content handed to the parser (tags)
    ppc,        \* position of the parser: "links", "joints", "done" ("idle" when unused)
    pos,        \* re.finditer scan position in text (index of the next tag to look at)
    links,      \* the parser's links list
    joints,     \* the parser's joints list
    hlinks,     \* structure['links'] given to create_hierarchical_diagram
    hjoints,    \* structure['joints'] given to create_hierarchical_diagram
    hpc,        \* position in create_hierarchical_diagram: "start", "roots", "done"
    root_nodes, \* the list root_nodes
    rootIdx,    \* index of the next root in: for root in root_nodes
    hierarchy,  \* the dict hierarchy: node -> [depth, children]
    stack,      \* call stack of build_hierarchy, innermost frame last
    visitLog,   \* history: <<node, depth>> of every call that passed the depth guard
    old_content,  \* old text given to analyze_code_changes, as its lines
    new_content,  \* new text given to analyze_code_changes, as its lines
    dpc,        \* position in analyze_code_changes: "start", "count", "classify", "done"
    diff,       \* the list diff = list(difflib.ndiff(old_lines, new_lines))
    di,         \* index of the running for loop
    changes,    \* the dict changes
    run,        \* 1: comparing old with new, 2: the same two texts compared the other way round
    firstChanges, \* history: the report of run 1
    cpc,        \* position in compare_commits: "start", "done", "raised" ("idle" when unused)
    udiff,      \* the value compare_commits returns
    viewer,     \* which URDF3DViewer runs: "embedded" (urdf-viewer.py) or "standalone" (urdf-3d-viewer.py)
    vfun,       \* the method called: "parse_geometry", "parse_origin", "get_link_type" ("idle" when unused)
    written,    \* what the author of the fragment wrote: a shape, or "raw" for a free fragment
    varg,       \* the argument of the method: a fragment (its tags) or a link name (its words)
    vpc,        \* position in the method: "box", "cylinder", "sphere", "origin", "type", "done", "raised"
    vresult,    \* the value the method returns
    otherResult, \* history: the value the other viewer returned for the same argument
    urdf,       \* the document given to analyze_urdf (units)
    spc,        \* position in analyze_urdf: "start", "size", "mass", "joint_types", "geometries", "done"
    stats,      \* the dict stats
    source,     \* which provider get_file_content_for_commit calls: "local" or "remote"
    sha,        \* the revision hash asked for
    recorded,   \* the repository: revision -> text of the file at that revision, or Absent
    worktree,   \* the file of the working tree, or Absent
    fault,      \* what goes wrong in this call
    gpc,        \* position in the provider: "start", "api", "done" ("idle" when unused)
    fetched,    \* the value the provider returns
    graph,      \* the graph G of parse_urdf_structure
    shown,      \* what URDF3DViewer.display draws: the links and the joint lines
    positions,  \* the dict positions of create_hierarchical_diagram
    drawn,      \* what create_hierarchical_diagram draws: node boxes, joint lines, the totals
    lviewer,    \* which parse_urdf builds the link entry: "embedded" or "standalone"
    lname,      \* link_name = match.group(1) of the link pattern (its words)
    link_content, \* match.group(2) of the link pattern (its tags)
    lpc,        \* position in the body of the link loop ("idle" when unused)
    geometry,   \* the local geometry
    origin,     \* the local origin
    entry,      \* the dict appended to self.links
    diff_lines, \* the list given to create_diff_html
    tpc,        \* position in create_diff_html: "start", "loop", "done" ("idle" when unused)
    html_lines, \* the list html_lines
    line_count, \* the counter line_count
    diff_html,  \* the markup create_diff_html returns: its kind and the elements inside
    ti,          \* index of the line the for loop of create_diff_html is at
    session,   \* st.session_state of main: the keys set and their values
    request,   \* history: the last compare request, what it selected and fetched, and the session before it
    vizFrom,   \* history: the place, file and commit list the stored visualisation was fetched for
    cmpFrom,    \* history: the place, file, commit list and selected indexes of the stored comparison
    rpc,       \* position in main of run.py: "start", "deps", "install", "port", "started", "returned" ("idle" when unused)
    version_ok, \* whether sys.version_info is 3.7 or later
    absent,    \* the packages importlib finds no module for
    missing,   \* the list missing of check_dependencies (package names)
    mi,        \* index of the running for loop of install_dependencies
    attempts,  \* history: the pip runs made, package and outcome, in order
    started,    \* history: start_application was called
    kviewer,   \* which URDF3DViewer window is open: "embedded" (the generated script) or "standalone"
    running,   \* the window is open (self.running)
    camera_distance, \* self.camera_distance, in tenths
    camera_angle_x, \* self.camera_angle_x, in tenths of a degree
    camera_angle_y, \* self.camera_angle_y, in tenths of a degree
    mouse_down, \* self.mouse_down
    last_x,    \* self.last_x, in pixels
    last_y,    \* self.last_y, in pixels
    last_event \* history: the last event handled

pvars == <<parser, doc, text, ppc, pos, links, joints>>

hvars == <<hlinks, hjoints, hpc, root_nodes, rootIdx, hierarchy, stack, visitLog>>

dvars == <<old_content, new_content, dpc, diff, di, changes, run, firstChanges>>

cvars == <<cpc, udiff>>

vvars == <<viewer, vfun, written, varg, vpc, vresult, otherResult>>

svars == <<urdf, spc, stats>>

gvars == <<source, sha, recorded, worktree, fault, gpc, fetched>>

\* what is derived from a parse result: graph and drawings
avars == <<graph, shown, positions, drawn>>

lvars == <<lviewer, lname, link_content, lpc, geometry, origin, entry>>

tvars == <<diff_lines, tpc, html_lines, line_count, diff_html, ti>>

uvars == <<session, request, vizFrom, cmpFrom>>

rvars == <<rpc, version_ok, absent, missing, mi, attempts, started>>

kvars == <<kviewer, running, camera_distance, camera_angle_x, camera_angle_y, mouse_down, last_x, last_y, last_event>>

\* the variables of the operations modelled last
nvars == <<lvars, tvars, uvars, rvars, kvars>>

\* the variables of the other operations
xvars == <<cvars, vvars, svars, gvars, avars, nvars>>

\* the variables of the operations modelled first
oldvars == <<pvars, hvars, dvars, cvars, vvars, svars, gvars, avars>>

\* all but lvars
restL == <<oldvars, tvars, uvars, rvars, kvars>>

\* all but tvars
restT == <<oldvars, lvars, uvars, rvars, kvars>>

\* all but uvars
restU == <<oldvars, lvars, tvars, rvars, kvars>>

\* all but rvars
restR == <<oldvars, lvars, tvars, uvars, kvars>>

\* all but kvars
restK == <<oldvars, lvars, tvars, uvars, rvars>>

vars == <<parser, doc, text, ppc, pos, links, joints,
          hlinks, hjoints, hpc, root_nodes, rootIdx, hierarchy, stack, visitLog,
          old_content, new_content, dpc, diff, di, changes, run, firstChanges,
          cpc, udiff,
          viewer, vfun, written, varg, vpc, vresult, otherResult,
          urdf, spc, stats,
          source, sha, recorded, worktree, fault, gpc, fetched,
          graph, shown, positions, drawn,
          lviewer, lname, link_content, lpc, geometry, origin, entry,
          diff_lines, tpc, html_lines, line_count, diff_html, ti,
          session, request, vizFrom, cmpFrom,
          rpc, version_ok, absent, missing, mi, attempts, started,
          kviewer, running, camera_distance, camera_angle_x, camera_angle_y, mouse_down, last_x, last_y, last_event>>

----------------------------------------------------------------------------
(* Bounds of the parser inputs *)

MaxDecls == 3

LinkNames == {"a", "b"}

JointForms == {"pc", "cp", "p", "c"}

Parsers == {"structure", "embedded", "standalone"}

----------------------------------------------------------------------------
(* Documents *)

\* <link name="n"/> or <link name="n"> ... </link>
LinkDecls == [kind : {"link"}, name : LinkNames, selfClosing : BOOLEAN]

\* <joint name="..."> with its <parent link=".."/> and <child link=".."/>
\* sub-tags: form "pc" has parent then child, "cp" child then parent,
\* "p" only the parent, "c" only the child.
JointDecls == [kind : {"joint"}, parent : LinkNames, child : LinkNames, form : JointForms]

Decls == LinkDecls \cup JointDecls

Docs == UNION {[1..n -> Decls] : n \in 0..MaxDecls}

ParentTag(d) == [k |-> "parent", link |-> d.parent]

ChildTag(d) == [k |-> "child", link |-> d.child]

SubTags(d) ==
    CASE d.form = "pc" -> <<ParentTag(d), ChildTag(d)>>
      [] d.form = "cp" -> <<ChildTag(d), ParentTag(d)>>
      [] d.form = "p"  -> <<ParentTag(d)>>
      [] d.form = "c"  -> <<ChildTag(d)>>

RenderDecl(d, i) ==
    IF d.kind = "link"
    THEN IF d.selfClosing
         THEN << [k |-> "link", name |-> d.name] >>
         ELSE << [k |-> "link", name |-> d.name], [k |-> "endlink"] >>
    ELSE << [k |-> "joint", name |-> i] >> \o SubTags(d) \o << [k |-> "endjoint"] >>

RECURSIVE RenderFrom(_, _)
RenderFrom(d, i) ==
    IF i > Len(d) THEN << >> ELSE RenderDecl(d[i], i) \o RenderFrom(d, i + 1)

Render(d) == RenderFrom(d, 1)

----------------------------------------------------------------------------
(* Regular-expression search over tags *)

\* index of the first tag of kind k at or after position p, 0 when none
FirstAt(t, k, p) ==
    IF \E i \in p..Len(t) : t[i].k = k
    THEN CHOOSE i \in p..Len(t) : t[i].k = k /\ \A h \in p..(i - 1) : t[h].k # k
    ELSE 0

\* index of the first tag of kind k in t[lo..hi], 0 when none
FirstIn(t, k, lo, hi) ==
    IF \E i \in lo..hi : t[i].k = k
    THEN CHOOSE i \in lo..hi : t[i].k = k /\ \A h \in lo..(i - 1) : t[h].k # k
    ELSE 0

RECURSIVE FindAllLinks(_, _)
\* re.findall(r'<link\s+name="([^"]+)"', content): every link-opening tag,
\* self-closing or not, in order
FindAllLinks(t, i) ==
    IF i > Len(t) THEN << >>
    ELSE IF t[i].k = "link" THEN <<t[i].name>> \o FindAllLinks(t, i + 1)
    ELSE FindAllLinks(t, i + 1)

\* one match of
\*   <joint\s+name="([^"]+)".*?<parent\s+link="([^"]+)".*?<child\s+link="([^"]+)"
\* with re.DOTALL, searched from position p: the first joint-opening tag, the
\* first parent tag after it, the first child tag after that parent (nothing
\* in the pattern stops at </joint>).  <<0,0,0>> when there is no match.
StructureJointMatch(t, p) ==
    LET j  == FirstAt(t, "joint", p)
        pa == IF j = 0 THEN 0 ELSE FirstAt(t, "parent", j + 1)
        ch == IF pa = 0 THEN 0 ELSE FirstAt(t, "child", pa + 1)
    IN  IF ch = 0 THEN <<0, 0, 0>> ELSE <<j, pa, ch>>

\* one match of <link\s+name="([^"]+)"(.*?)</link> with re.DOTALL from
\* position p: the first link-opening tag and the first </link> after it
ViewerLinkMatch(t, p) ==
    LET l == FirstAt(t, "link", p)
        e == IF l = 0 THEN 0 ELSE FirstAt(t, "endlink", l + 1)
    IN  IF e = 0 THEN <<0, 0>> ELSE <<l, e>>

\* one match of <joint\s+name="([^"]+)"(.*?)</joint> with re.DOTALL
ViewerJointMatch(t, p) ==
    LET j == FirstAt(t, "joint", p)
        e == IF j = 0 THEN 0 ELSE FirstAt(t, "endjoint", j + 1)
    IN  IF e = 0 THEN <<0, 0>> ELSE <<j, e>>

----------------------------------------------------------------------------
(* parse_urdf_structure *)

\* the set of the elements of a list
Range(s) == {s[i] : i \in 1..Len(s)}

\* G is None
NoGraph == [given |-> FALSE, nodes |-> {}, edges |-> {}]

\* G.add_edge(parent, child, label=name): one edge per ordered pair of nodes,
\* the label of the last one added
AddEdge(E, j) ==
    {e \in E : ~(e.parent = j.parent /\ e.child = j.child)}
        \cup {[parent |-> j.parent, child |-> j.child, label |-> j.name]}

\* joint['parent'] in links and joint['child'] in links
Resolved(ls, j) == j.parent \in Range(ls) /\ j.child \in Range(ls)

RECURSIVE GraphEdges(_, _, _)
\* the edges of G after the first n joints
GraphEdges(ls, js, n) ==
    IF n = 0 THEN {}
    ELSE IF Resolved(ls, js[n])
         THEN AddEdge(GraphEdges(ls, js, n - 1), js[n])
         ELSE GraphEdges(ls, js, n - 1)

\* the graph of parse_urdf_structure, with networkx installed
BuildGraph(ls, js) ==
    IF ls = << >> /\ js = << >> THEN NoGraph
    ELSE [given |-> TRUE, nodes |-> Range(ls), edges |-> GraphEdges(ls, js, Len(js))]

StructureJoint(t, m) ==
    [name |-> t[m[1]].name, parent |-> t[m[2]].link, child |-> t[m[3]].link]

\* links = re.findall(...)
StructureLinks ==
    /\ parser = "structure"
    /\ ppc = "links"
    /\ links' = FindAllLinks(text, 1)
    /\ ppc' = "joints"
    /\ pos' = 1
    /\ UNCHANGED <<parser, doc, text, joints>>
    /\ UNCHANGED <<hvars, dvars, xvars>>

\* one iteration of: for match in re.finditer(joint_pattern, content, re.DOTALL)
StructureJointStep ==
    /\ parser = "structure"
    /\ ppc = "joints"
    /\ LET m == StructureJointMatch(text, pos)
       IN  /\ m[1] # 0
           /\ joints' = Append(joints, StructureJoint(text, m))
           /\ pos' = m[3] + 1
    /\ UNCHANGED <<parser, doc, text, ppc, links>>
    /\ UNCHANGED <<hvars, dvars, xvars>>

\* the loop ends when finditer has no further match: G is built and the
\* result returned
StructureReturn ==
    /\ parser = "structure"
    /\ ppc = "joints"
    /\ StructureJointMatch(text, pos)[1] = 0
    /\ graph' = BuildGraph(links, joints)
    /\ ppc' = "done"
    /\ UNCHANGED <<parser, doc, text, pos, links, joints>>
    /\ UNCHANGED <<hvars, dvars, cvars, vvars, svars, gvars, shown, positions, drawn, nvars>>

----------------------------------------------------------------------------
(* URDF3DViewer.parse_urdf, embedded script and standalone viewer *)

\* one iteration of the link loop
ViewerLinkStep ==
    /\ parser \in {"embedded", "standalone"}
    /\ ppc = "links"
    /\ LET m == ViewerLinkMatch(text, pos)
       IN  /\ m[1] # 0
           /\ links' = Append(links, text[m[1]].name)
           /\ pos' = m[2] + 1
    /\ UNCHANGED <<parser, doc, text, ppc, joints>>
    /\ UNCHANGED <<hvars, dvars, xvars>>

ViewerLinksEnd ==
    /\ parser \in {"embedded", "standalone"}
    /\ ppc = "links"
    /\ ViewerLinkMatch(text, pos)[1] = 0
    /\ ppc' = "joints"
    /\ pos' = 1
    /\ UNCHANGED <<parser, doc, text, links, joints>>
    /\ UNCHANGED <<hvars, dvars, xvars>>

\* the joint dict appended by the embedded script has a 'name' key, the one
\* of the standalone viewer has not
ViewerJoint(which, t, j, pa, ch) ==
    IF which = "embedded"
    THEN [name |-> t[j].name, parent |-> t[pa].link, child |-> t[ch].link]
    ELSE [parent |-> t[pa].link, child |-> t[ch].link]

\* one iteration of the joint loop: parent_match and child_match are searched
\* in the joint's own content only
ViewerJointStep ==
    /\ parser \in {"embedded", "standalone"}
    /\ ppc = "joints"
    /\ LET m  == ViewerJointMatch(text, pos)
           pa == FirstIn(text, "parent", m[1] + 1, m[2] - 1)
           ch == FirstIn(text, "child", m[1] + 1, m[2] - 1)
       IN  /\ m[1] # 0
           /\ joints' = IF pa # 0 /\ ch # 0
                        THEN Append(joints, ViewerJoint(parser, text, m[1], pa, ch))
                        ELSE joints
           /\ pos' = m[2] + 1
    /\ UNCHANGED <<parser, doc, text, ppc, links>>
    /\ UNCHANGED <<hvars, dvars, xvars>>

ViewerReturn ==
    /\ parser \in {"embedded", "standalone"}
    /\ ppc = "joints"
    /\ ViewerJointMatch(text, pos)[1] = 0
    /\ ppc' = "done"
    /\ UNCHANGED <<parser, doc, text, pos, links, joints>>
    /\ UNCHANGED <<hvars, dvars, xvars>>

\* next((link for link in self.links if link['name'] == name), None) is a link
Found(ls, name) == \E i \in 1..Len(ls) : ls[i] = name

\* the joints display draws a line for: the embedded script draws one when
\* parent_link and child_link are found, urdf-3d-viewer.py draws none
JointLines(which, ls, js) ==
    LET Both(j) == Found(ls, j.parent) /\ Found(ls, j.child)
    IN  IF which = "embedded" THEN SelectSeq(js, Both) ELSE << >>

\* display: draw_link for every link, then the joint lines
Display ==
    /\ parser \in {"embedded", "standalone"}
    /\ ppc = "done"
    /\ shown' = [links |-> links, lines |-> JointLines(parser, links, joints)]
    /\ ppc' = "shown"
    /\ UNCHANGED <<parser, doc, text, pos, links, joints>>
    /\ UNCHANGED <<hvars, dvars, cvars, vvars, svars, gvars, graph, positions, drawn, nvars>>

----------------------------------------------------------------------------
(* Components that take no part in a specification stay in their idle state *)

EmptyDict == [n \in {} |-> 0]

ParseIdle ==
    /\ parser = "structure"
    /\ doc = << >>
    /\ text = << >>
    /\ ppc = "idle"
    /\ pos = 1
    /\ links = << >>
    /\ joints = << >>

HierIdle ==
    /\ hlinks = << >>
    /\ hjoints = << >>
    /\ hpc = "idle"
    /\ root_nodes = << >>
    /\ rootIdx = 1
    /\ hierarchy = EmptyDict
    /\ stack = << >>
    /\ visitLog = << >>

DiffIdle ==
    /\ old_content = << >>
    /\ new_content = << >>
    /\ dpc = "idle"
    /\ diff = << >>
    /\ di = 1
    /\ changes = EmptyDict
    /\ run = 1
    /\ firstChanges = EmptyDict

CompareIdle ==
    /\ cpc = "idle"
    /\ udiff = << >>

ViewerIdle ==
    /\ viewer = "embedded"
    /\ vfun = "idle"
    /\ written = [type |-> "raw"]
    /\ varg = << >>
    /\ vpc = "idle"
    /\ vresult = EmptyDict
    /\ otherResult = EmptyDict

StatsIdle ==
    /\ urdf = << >>
    /\ spc = "idle"
    /\ stats = EmptyDict

ContentIdle ==
    /\ source = "local"
    /\ sha = "r0"
    /\ recorded = EmptyDict
    /\ worktree = << >>
    /\ fault = EmptyDict
    /\ gpc = "idle"
    /\ fetched = << >>

LinkIdle ==
    /\ lviewer = "embedded"
    /\ lname = << >>
    /\ link_content = << >>
    /\ lpc = "idle"
    /\ geometry = EmptyDict
    /\ origin = EmptyDict
    /\ entry = EmptyDict

HtmlIdle ==
    /\ diff_lines = << >>
    /\ tpc = "idle"
    /\ html_lines = << >>
    /\ line_count = 0
    /\ diff_html = EmptyDict
    /\ ti = 0

SessionIdle ==
    /\ session = EmptyDict
    /\ request = [kind |-> "none"]
    /\ vizFrom = EmptyDict
    /\ cmpFrom = EmptyDict

LauncherIdle ==
    /\ rpc = "idle"
    /\ version_ok = TRUE
    /\ absent = {}
    /\ missing = << >>
    /\ mi = 0
    /\ attempts = << >>
    /\ started = FALSE

CameraIdle ==
    /\ kviewer = "embedded"
    /\ running = FALSE
    /\ camera_distance = 0
    /\ camera_angle_x = 0
    /\ camera_angle_y = 0
    /\ mouse_down = FALSE
    /\ last_x = 0
    /\ last_y = 0
    /\ last_event = "none"

\* the operations modelled last are not running
NewIdle == LinkIdle /\ HtmlIdle /\ SessionIdle /\ LauncherIdle /\ CameraIdle

\* nothing is derived or drawn yet
NothingDrawn ==
    /\ graph = [given |-> FALSE, nodes |-> {}, edges |-> {}]
    /\ shown = EmptyDict
    /\ positions = EmptyDict
    /\ drawn = EmptyDict

----------------------------------------------------------------------------
(* Specification of the parsers *)

ParseInit ==
    /\ parser \in Parsers
    /\ doc \in Docs
    /\ text = Render(doc)
    /\ ppc = "links"
    /\ pos = 1
    /\ links = << >>
    /\ joints = << >>
    /\ HierIdle
    /\ DiffIdle
    /\ CompareIdle
    /\ ViewerIdle
    /\ StatsIdle
    /\ ContentIdle
    /\ NothingDrawn
    /\ NewIdle

ParseNext ==
    \/ StructureLinks
    \/ StructureJointStep
    \/ StructureReturn
    \/ ViewerLinkStep
    \/ ViewerLinksEnd
    \/ ViewerJointStep
    \/ ViewerReturn
    \/ Display

SpecParse == ParseInit /\ [][ParseNext]_vars

----------------------------------------------------------------------------
(* create_hierarchical_diagram: root finding and build_hierarchy *)

MaxHLinks == 2

MaxHJoints == 2

MaxChain == 12

HNames == {"a", "b", "c"}

ChainNames == <<"n0", "n1", "n2", "n3", "n4", "n5", "n6", "n7", "n8", "n9",
                "n10", "n11", "n12", "n13", "n14">>

\* if depth > 10: return
DepthLimit == 10

HEdges == [parent : HNames, child : HNames]

SeqsUpTo(S, n) == UNION {[1..k -> S] : k \in 0..n}

RECURSIVE ReachFrom(_, _)
\* the nodes reachable from the set S along the joints js
ReachFrom(js, S) ==
    LET T == S \cup {js[i].child : i \in {k \in 1..Len(js) : js[k].parent \in S}}
    IN  IF T = S THEN S ELSE ReachFrom(js, T)

\* build_hierarchy makes fan^11 calls when a node has fan joints that lead
\* back to it.  Joint lists of more than two joints are taken only when no
\* node has two joints leading back to it.
Tame(js) ==
    \/ Len(js) <= 2
    \/ \A n \in HNames :
         Cardinality({i \in 1..Len(js) :
                        js[i].parent = n /\ n \in ReachFrom(js, {js[i].child})}) <= 1

\* a chain n0 -> n1 -> ... of k links, closed into a ring when ring is TRUE
ChainLinks(k) == [i \in 1..k |-> ChainNames[i]]

ChainJoints(k, ring) ==
    [i \in 1..(k - 1) |-> [parent |-> ChainNames[i], child |-> ChainNames[i + 1]]]
    \o (IF ring THEN << [parent |-> ChainNames[k], child |-> ChainNames[1]] >> ELSE << >>)

\* all_children = set(j['child'] for j in joints)
AllChildren(js) == {js[i].child : i \in 1..Len(js)}

RECURSIVE NotChildren(_, _, _)
\* [link for link in links if link not in all_children]
NotChildren(ls, js, i) ==
    IF i > Len(ls) THEN << >>
    ELSE IF ls[i] \notin AllChildren(js)
         THEN <<ls[i]>> \o NotChildren(ls, js, i + 1)
         ELSE NotChildren(ls, js, i + 1)

\* root finding without the fallback to the first link
RootNodes_NoFallback(ls, js) == NotChildren(ls, js, 1)

\* root_nodes, with the fallback: if not root_nodes and links: root_nodes = [links[0]]
RootNodes(ls, js) ==
    LET r == NotChildren(ls, js, 1)
    IN  IF r = << >> /\ ls # << >> THEN <<ls[1]>> ELSE r

\* the guard one level late
DepthExceeded_OffByOne(depth) == depth > DepthLimit + 1

\* no guard
DepthExceeded_Never(depth) == FALSE

\* if depth > 10
DepthExceeded(depth) == depth > DepthLimit

\* the depth written on every visit
Record_Overwrite(h, node, depth) ==
    IF node \in DOMAIN h THEN [h EXCEPT ![node].depth = depth]
    ELSE h @@ (node :> [depth |-> depth, children |-> << >>])

\* if node not in hierarchy: hierarchy[node] = {'depth': depth, 'children': []}
Record(h, node, depth) ==
    IF node \in DOMAIN h THEN h
    ELSE h @@ (node :> [depth |-> depth, children |-> << >>])

\* hierarchy[node]['children'].append(child)
AddChild(h, node, child) ==
    [h EXCEPT ![node].children = Append(@, child)]

Frame(node, depth) == [node |-> node, depth |-> depth, i |-> 0]

\* the recursive call without the depth increment
ChildCall_SameDepth(top, joint) == Frame(joint.child, top.depth)

\* build_hierarchy(child, depth + 1), called from the frame top for joint
ChildCall(top, joint) == Frame(joint.child, top.depth + 1)

Top == stack[Len(stack)]

Pop(st) == SubSeq(st, 1, Len(st) - 1)

\* the frame on top moves to joint index i
TopAt(st, i) == [st EXCEPT ![Len(st)].i = i]

\* entry of create_hierarchical_diagram up to the definition of build_hierarchy;
\* it returns at once when structure['links'] is empty
HierStart ==
    /\ hpc = "start"
    /\ IF hlinks = << >>
       THEN /\ hpc' = "done"
            /\ UNCHANGED root_nodes
       ELSE /\ hpc' = "roots"
            /\ root_nodes' = RootNodes(hlinks, hjoints)
    /\ UNCHANGED <<hlinks, hjoints, rootIdx, hierarchy, stack, visitLog>>
    /\ UNCHANGED <<pvars, dvars, xvars>>

\* for root in root_nodes: build_hierarchy(root)
CallRoot ==
    /\ hpc = "roots"
    /\ stack = << >>
    /\ rootIdx <= Len(root_nodes)
    /\ stack' = << Frame(root_nodes[rootIdx], 0) >>
    /\ rootIdx' = rootIdx + 1
    /\ UNCHANGED <<hlinks, hjoints, hpc, root_nodes, hierarchy, visitLog>>
    /\ UNCHANGED <<pvars, dvars, xvars>>

\* build_hierarchy called beyond the limit: return
EnterBeyond ==
    /\ stack # << >>
    /\ Top.i = 0
    /\ DepthExceeded(Top.depth)
    /\ stack' = Pop(stack)
    /\ UNCHANGED <<hlinks, hjoints, hpc, root_nodes, rootIdx, hierarchy, visitLog>>
    /\ UNCHANGED <<pvars, dvars, xvars>>

\* build_hierarchy within the limit: record the node when it is new
Enter ==
    /\ stack # << >>
    /\ Top.i = 0
    /\ ~DepthExceeded(Top.depth)
    /\ hierarchy' = Record(hierarchy, Top.node, Top.depth)
    /\ visitLog' = Append(visitLog, <<Top.node, Top.depth>>)
    /\ stack' = TopAt(stack, 1)
    /\ UNCHANGED <<hlinks, hjoints, hpc, root_nodes, rootIdx>>
    /\ UNCHANGED <<pvars, dvars, xvars>>

\* for joint in joints, joint['parent'] == node: append the child and recurse
LoopChild ==
    /\ stack # << >>
    /\ Top.i \in 1..Len(hjoints)
    /\ hjoints[Top.i].parent = Top.node
    /\ hierarchy' = AddChild(hierarchy, Top.node, hjoints[Top.i].child)
    /\ stack' = Append(TopAt(stack, Top.i + 1), ChildCall(Top, hjoints[Top.i]))
    /\ UNCHANGED <<hlinks, hjoints, hpc, root_nodes, rootIdx, visitLog>>
    /\ UNCHANGED <<pvars, dvars, xvars>>

\* for joint in joints, joint['parent'] != node
LoopSkip ==
    /\ stack # << >>
    /\ Top.i \in 1..Len(hjoints)
    /\ hjoints[Top.i].parent # Top.node
    /\ stack' = TopAt(stack, Top.i + 1)
    /\ UNCHANGED <<hlinks, hjoints, hpc, root_nodes, rootIdx, hierarchy, visitLog>>
    /\ UNCHANGED <<pvars, dvars, xvars>>

\* the loop over joints is exhausted: build_hierarchy returns
Return ==
    /\ stack # << >>
    /\ Top.i > Len(hjoints)
    /\ stack' = Pop(stack)
    /\ UNCHANGED <<hlinks, hjoints, hpc, root_nodes, rootIdx, hierarchy, visitLog>>
    /\ UNCHANGED <<pvars, dvars, xvars>>

\* every root is built
HierEnd ==
    /\ hpc = "roots"
    /\ stack = << >>
    /\ rootIdx > Len(root_nodes)
    /\ hpc' = "done"
    /\ UNCHANGED <<hlinks, hjoints, root_nodes, rootIdx, hierarchy, stack, visitLog>>
    /\ UNCHANGED <<pvars, dvars, xvars>>

\* sorted(nodes): the order of Python on the names used here
NameOrder == <<"a", "b", "c", "n0", "n1", "n10", "n11", "n12", "n13", "n14",
               "n2", "n3", "n4", "n5", "n6", "n7", "n8", "n9">>

NameIndex(n) == CHOOSE i \in 1..Len(NameOrder) : NameOrder[i] = n

\* max(h.get('depth', 0) for h in hierarchy.values()) if hierarchy else 0
MaxDepth(h) ==
    IF DOMAIN h = {} THEN 0
    ELSE CHOOSE d \in {h[n].depth : n \in DOMAIN h} : \A n \in DOMAIN h : h[n].depth <= d

\* nodes_by_depth[depth]
NodesByDepth(h, depth) == {n \in DOMAIN h : h[n].depth = depth}

\* positions[node] = ((i + 1) * x_spacing - 5, y_positions[node]) with
\* x_spacing = 10.0 / (len(nodes) + 1): x is held as numerator and denominator
Positions(h) ==
    [node \in DOMAIN h |->
        LET nodes == NodesByDepth(h, h[node].depth)
            i == Cardinality({m \in nodes : NameIndex(m) < NameIndex(node)})
        IN  [x |-> <<10 * (i + 1) - 5 * (Cardinality(nodes) + 1), Cardinality(nodes) + 1>>,
             y |-> MaxDepth(h) - h[node].depth]]

\* the joints a line is drawn for: if parent in positions and child in positions
DrawnLines(pos0, js) ==
    LET Both(j) == j.parent \in DOMAIN pos0 /\ j.child \in DOMAIN pos0
    IN  SelectSeq(js, Both)

\* the rest of create_hierarchical_diagram: positions, a box for every node
\* of positions, a line for every joint with both ends in positions, and the
\* totals of stats_text
Draw ==
    /\ hpc = "done"
    /\ hlinks # << >>
    /\ positions' = Positions(hierarchy)
    /\ drawn' = [nodes |-> DOMAIN Positions(hierarchy),
                 lines |-> DrawnLines(Positions(hierarchy), hjoints),
                 roots |-> Len(root_nodes),
                 total |-> Cardinality(DOMAIN hierarchy)]
    /\ hpc' = "drawn"
    /\ UNCHANGED <<hlinks, hjoints, root_nodes, rootIdx, hierarchy, stack, visitLog>>
    /\ UNCHANGED <<pvars, dvars, cvars, vvars, svars, gvars, graph, shown, nvars>>

HierInputs ==
    {<<ls, js>> : ls \in SeqsUpTo(HNames, MaxHLinks),
                  js \in {j \in SeqsUpTo(HEdges, MaxHJoints) : Tame(j)}}
    \cup {<<ChainLinks(k), ChainJoints(k, r)>> : k \in 1..MaxChain, r \in BOOLEAN}

HierInit ==
    /\ \E in \in HierInputs : hlinks = in[1] /\ hjoints = in[2]
    /\ hpc = "start"
    /\ root_nodes = << >>
    /\ rootIdx = 1
    /\ hierarchy = EmptyDict
    /\ stack = << >>
    /\ visitLog = << >>
    /\ ParseIdle
    /\ DiffIdle
    /\ CompareIdle
    /\ ViewerIdle
    /\ StatsIdle
    /\ ContentIdle
    /\ NothingDrawn
    /\ NewIdle

HierNext ==
    \/ HierStart
    \/ CallRoot
    \/ EnterBeyond
    \/ Enter
    \/ LoopChild
    \/ LoopSkip
    \/ Return
    \/ HierEnd
    \/ Draw

SpecHier == HierInit /\ [][HierNext]_vars

\* build_hierarchy runs to completion once called: every step that can be
\* taken is eventually taken
FairSpecHier == HierInit /\ [][HierNext]_vars /\ WF_vars(HierNext)

----------------------------------------------------------------------------
(* Texts.  A text is the list of its lines (content.splitlines()); the empty *)
(* string is the text without lines.  A line is the list of its lexical      *)
(* units; no unit contains white space, and no unit contains a marker of the *)
(* classification other than the unit that is that marker.                   *)

MaxLines == 3

MaxUnits == 2

Line_a == <<"<link", "name=\"", "a", "/>">>

Line_b == <<"<link", "name=\"", "b", "/>">>

Line_o == <<"<origin", "xyz=\"", "0", "/>">>

LinePool == {Line_a, Line_b, Line_o}

Markers == {"<link", "<joint", "<visual", "<collision", "<origin", "<geometry",
            "<material", "name=\"", "xyz=\"", "rpy=\""}

UpperMarkers == {"<LINK", "<JOINT", "<VISUAL", "<COLLISION", "<ORIGIN", "<GEOMETRY",
                 "<MATERIAL", "NAME=\"", "XYZ=\"", "RPY=\""}

Vocabulary == Markers \cup UpperMarkers \cup {"a", "</link>"}

\* str.lower() on one unit
LowerUnit(u) ==
    CASE u = "<LINK" -> "<link"
      [] u = "<JOINT" -> "<joint"
      [] u = "<VISUAL" -> "<visual"
      [] u = "<COLLISION" -> "<collision"
      [] u = "<ORIGIN" -> "<origin"
      [] u = "<GEOMETRY" -> "<geometry"
      [] u = "<MATERIAL" -> "<material"
      [] u = "NAME=\"" -> "name=\""
      [] u = "XYZ=\"" -> "xyz=\""
      [] u = "RPY=\"" -> "rpy=\""
      [] OTHER -> u

\* line.lower()
Lower(line) == [i \in 1..Len(line) |-> LowerUnit(line[i])]

\* marker in line
Contains(line, marker) == \E i \in 1..Len(line) : line[i] = marker

----------------------------------------------------------------------------
(* difflib.ndiff as analyze_code_changes uses it: SequenceMatcher without    *)
(* junk (texts of fewer than 200 lines, lines without white space) and      *)
(* Differ.compare.  Positions are Python's: x[i] of Python is x[i + 1] here, *)
(* ranges are lo <= i < hi.                                                  *)

SetMax(S) == CHOOSE x \in S : \A y \in S : y <= x

SetMin(S) == CHOOSE x \in S : \A y \in S : x <= y

RECURSIVE MatchLen(_, _, _, _, _, _)
\* length of the longest common run of a[i:ahi] and b[j:bhi] starting at i, j
MatchLen(a, b, i, j, ahi, bhi) ==
    IF i < ahi /\ j < bhi /\ a[i + 1] = b[j + 1]
    THEN 1 + MatchLen(a, b, i + 1, j + 1, ahi, bhi)
    ELSE 0

\* SequenceMatcher.find_longest_match: the longest matching block of
\* a[alo:ahi] and b[blo:bhi]; of the longest ones the one that starts
\* earliest in a, and of those the one that starts earliest in b
FindLongestMatch(a, b, alo, ahi, blo, bhi) ==
    LET P == (alo..(ahi - 1)) \X (blo..(bhi - 1))
        len == [p \in P |-> MatchLen(a, b, p[1], p[2], ahi, bhi)]
        best == IF P = {} THEN 0 ELSE SetMax({len[p] : p \in P})
    IN  IF best = 0 THEN <<alo, blo, 0>>
        ELSE LET i == SetMin({p[1] : p \in {q \in P : len[q] = best}})
                 j == SetMin({p[2] : p \in {q \in P : len[q] = best /\ q[1] = i}})
             IN  <<i, j, best>>

RECURSIVE MatchingBlocks(_, _, _, _, _, _)
\* SequenceMatcher.get_matching_blocks without the closing sentinel: the
\* longest match, then the same to its left and to its right
MatchingBlocks(a, b, alo, ahi, blo, bhi) ==
    LET m == FindLongestMatch(a, b, alo, ahi, blo, bhi)
    IN  IF m[3] = 0 THEN << >>
        ELSE (IF alo < m[1] /\ blo < m[2]
              THEN MatchingBlocks(a, b, alo, m[1], blo, m[2]) ELSE << >>)
             \o <<m>>
             \o (IF m[1] + m[3] < ahi /\ m[2] + m[3] < bhi
                 THEN MatchingBlocks(a, b, m[1] + m[3], ahi, m[2] + m[3], bhi) ELSE << >>)

RECURSIVE SumSizes(_, _)
SumSizes(blocks, i) == IF i > Len(blocks) THEN 0 ELSE blocks[i][3] + SumSizes(blocks, i + 1)

\* the number of matched units of two lines: ratio() is 2 * Matches / (len + len)
Matches(x, y) == SumSizes(MatchingBlocks(x, y, 0, Len(x), 0, Len(y)), 1)

\* Differ._dump
Dump(tag, x, lo, hi) == [i \in 1..(hi - lo) |-> [tag |-> tag, line |-> x[lo + i]]]

\* Differ._plain_replace: the shorter block first
PlainReplace(a, alo, ahi, b, blo, bhi) ==
    IF bhi - blo < ahi - alo
    THEN Dump("+", b, blo, bhi) \o Dump("-", a, alo, ahi)
    ELSE Dump("-", a, alo, ahi) \o Dump("+", b, blo, bhi)

\* Differ._qformat: the synched pair, each line followed by its '? ' hint
\* when it has a unit outside the matching blocks
QFormat(aelt, belt) ==
    LET m == Matches(aelt, belt)
    IN  << [tag |-> "-", line |-> aelt] >>
        \o (IF m < Len(aelt) THEN << [tag |-> "?", line |-> << >>] >> ELSE << >>)
        \o << [tag |-> "+", line |-> belt] >>
        \o (IF m < Len(belt) THEN << [tag |-> "?", line |-> << >>] >> ELSE << >>)

\* the pairs <<i, j>> of the block in the order _fancy_replace meets them:
\* p before q
MetBefore(p, q) == p[2] < q[2] \/ (p[2] = q[2] /\ p[1] < q[1])

FirstMet(S) == CHOOSE p \in S : \A q \in S : q = p \/ MetBefore(p, q)

\* ratio of p > ratio of q, for pairs of different lines
RatioGreater(a, b, p, q) ==
    Matches(a[p[1] + 1], b[p[2] + 1]) * (Len(a[q[1] + 1]) + Len(b[q[2] + 1]))
        > Matches(a[q[1] + 1], b[q[2] + 1]) * (Len(a[p[1] + 1]) + Len(b[p[2] + 1]))

\* ratio of the pair p > n / 100
RatioAbove(a, b, p, n) ==
    200 * Matches(a[p[1] + 1], b[p[2] + 1]) > n * (Len(a[p[1] + 1]) + Len(b[p[2] + 1]))

\* ratio of the pair p >= n / 100
RatioAtLeast(a, b, p, n) ==
    200 * Matches(a[p[1] + 1], b[p[2] + 1]) >= n * (Len(a[p[1] + 1]) + Len(b[p[2] + 1]))

RECURSIVE FancyReplace(_, _, _, _, _, _)
RECURSIVE FancyHelper(_, _, _, _, _, _)

\* Differ._fancy_helper; Differ.compare treats the gap between two matching
\* blocks the same way (replace, delete or insert opcode)
FancyHelper(a, alo, ahi, b, blo, bhi) ==
    IF alo < ahi
    THEN IF blo < bhi THEN FancyReplace(a, alo, ahi, b, blo, bhi)
         ELSE Dump("-", a, alo, ahi)
    ELSE IF blo < bhi THEN Dump("+", b, blo, bhi)
    ELSE << >>

\* Differ._fancy_replace: synch on the most similar pair of different lines
\* (ratio above 0.74, first met among the best, kept when it reaches the
\* cutoff 0.75), else on the first identical pair, else a plain replace
FancyReplace(a, alo, ahi, b, blo, bhi) ==
    LET P == (alo..(ahi - 1)) \X (blo..(bhi - 1))
        Eq == {p \in P : a[p[1] + 1] = b[p[2] + 1]}
        Near == {p \in P \ Eq : RatioAbove(a, b, p, 74)}
        Best == {p \in Near : \A q \in Near : ~RatioGreater(a, b, q, p)}
        synched == Near # {} /\ RatioAtLeast(a, b, FirstMet(Best), 75)
        s == IF synched THEN FirstMet(Best) ELSE FirstMet(Eq)
    IN  IF ~synched /\ Eq = {}
        THEN PlainReplace(a, alo, ahi, b, blo, bhi)
        ELSE FancyHelper(a, alo, s[1], b, blo, s[2])
             \o (IF synched THEN QFormat(a[s[1] + 1], b[s[2] + 1])
                 ELSE << [tag |-> " ", line |-> a[s[1] + 1]] >>)
             \o FancyHelper(a, s[1] + 1, ahi, b, s[2] + 1, bhi)

RECURSIVE CompareFrom(_, _, _, _, _, _)
\* Differ.compare from block number n on, the texts consumed up to i and j
CompareFrom(a, b, blocks, n, i, j) ==
    IF n > Len(blocks)
    THEN FancyHelper(a, i, Len(a), b, j, Len(b))
    ELSE FancyHelper(a, i, blocks[n][1], b, j, blocks[n][2])
         \o Dump(" ", a, blocks[n][1], blocks[n][1] + blocks[n][3])
         \o CompareFrom(a, b, blocks, n + 1,
                        blocks[n][1] + blocks[n][3], blocks[n][2] + blocks[n][3])

\* list(difflib.ndiff(old_lines, new_lines))
Ndiff(a, b) ==
    CompareFrom(a, b, MatchingBlocks(a, b, 0, Len(a), 0, Len(b)), 1, 0, 0)

----------------------------------------------------------------------------
(* analyze_code_changes *)

\* for change_type, line in changes['line_changes'][:100]
ClassifyLimit == 100

\* the dict changes as first built
NewChanges ==
    [added_lines |-> 0, removed_lines |-> 0, modified_lines |-> 0, unchanged_lines |-> 0,
     changes_by_type |-> EmptyDict, line_changes |-> << >>]

\* dict.get(key, default)
Get(d, key, default) == IF key \in DOMAIN d THEN d[key] ELSE default

\* Counter: c[key] += 2
Incr_ByTwo(c, key) == IF key \in DOMAIN c THEN [c EXCEPT ![key] = @ + 2] ELSE c @@ (key :> 2)

\* Counter: c[key] += 1
Incr(c, key) == IF key \in DOMAIN c THEN [c EXCEPT ![key] = @ + 1] ELSE c @@ (key :> 1)

\* the markers looked for in the line as it is written, not lowered
ClassifyKind_CaseSensitive(line) ==
    IF Contains(line, "<link") THEN "link"
    ELSE IF Contains(line, "<joint") THEN "joint"
    ELSE IF Contains(line, "<visual") THEN "visual"
    ELSE IF Contains(line, "<collision") THEN "collision"
    ELSE IF Contains(line, "<origin") THEN "origin"
    ELSE IF Contains(line, "<geometry") THEN "geometry"
    ELSE IF Contains(line, "<material") THEN "material"
    ELSE IF Contains(line, "name=\"") THEN "name"
    ELSE IF Contains(line, "xyz=\"") \/ Contains(line, "rpy=\"") THEN "pose"
    ELSE "none"

\* the if / elif chain on line_lower; "none" when no branch is taken
ClassifyKind(line) ==
    LET line_lower == Lower(line)
    IN  IF Contains(line_lower, "<link") THEN "link"
        ELSE IF Contains(line_lower, "<joint") THEN "joint"
        ELSE IF Contains(line_lower, "<visual") THEN "visual"
        ELSE IF Contains(line_lower, "<collision") THEN "collision"
        ELSE IF Contains(line_lower, "<origin") THEN "origin"
        ELSE IF Contains(line_lower, "<geometry") THEN "geometry"
        ELSE IF Contains(line_lower, "<material") THEN "material"
        ELSE IF Contains(line_lower, "name=\"") THEN "name"
        ELSE IF Contains(line_lower, "xyz=\"") \/ Contains(line_lower, "rpy=\"") THEN "pose"
        ELSE "none"

\* None, the absent text: a value that is no text of the inputs
None == << <<"None">> >>

\* the test "content is None" alone, an empty text let through
Falsy_OnlyNone(content) == content = None

\* not content: true of None and of the empty string
Falsy(content) == content = None \/ content = << >>

\* if not old_content or not new_content: return {}
AnalyzeEmpty ==
    /\ dpc = "start"
    /\ Falsy(old_content) \/ Falsy(new_content)
    /\ changes' = EmptyDict
    /\ dpc' = "done"
    /\ UNCHANGED <<old_content, new_content, diff, di, run, firstChanges>>
    /\ UNCHANGED <<pvars, hvars, xvars>>

\* splitlines, ndiff and the initial changes dict; None has no splitlines
\* and the call raises
AnalyzeStart ==
    /\ dpc = "start"
    /\ ~(Falsy(old_content) \/ Falsy(new_content))
    /\ IF old_content = None \/ new_content = None
       THEN /\ dpc' = "raised"
            /\ UNCHANGED <<diff, changes, di>>
       ELSE /\ diff' = Ndiff(old_content, new_content)
            /\ changes' = NewChanges
            /\ di' = 1
            /\ dpc' = "count"
    /\ UNCHANGED <<old_content, new_content, run, firstChanges>>
    /\ UNCHANGED <<pvars, hvars, xvars>>

\* for line in diff: line.startswith('+ ')
CountAdded ==
    /\ dpc = "count"
    /\ di <= Len(diff)
    /\ diff[di].tag = "+"
    /\ changes' = [changes EXCEPT !.added_lines = @ + 1,
                                  !.line_changes = Append(@, <<"+", diff[di].line>>)]
    /\ di' = di + 1
    /\ UNCHANGED <<old_content, new_content, dpc, diff, run, firstChanges>>
    /\ UNCHANGED <<pvars, hvars, xvars>>

\* line.startswith('- ')
CountRemoved ==
    /\ dpc = "count"
    /\ di <= Len(diff)
    /\ diff[di].tag = "-"
    /\ changes' = [changes EXCEPT !.removed_lines = @ + 1,
                                  !.line_changes = Append(@, <<"-", diff[di].line>>)]
    /\ di' = di + 1
    /\ UNCHANGED <<old_content, new_content, dpc, diff, run, firstChanges>>
    /\ UNCHANGED <<pvars, hvars, xvars>>

\* an unchanged line counted as a modified one
CountUnchanged_AsModified ==
    /\ dpc = "count"
    /\ di <= Len(diff)
    /\ diff[di].tag = " "
    /\ changes' = [changes EXCEPT !.modified_lines = @ + 1]
    /\ di' = di + 1
    /\ UNCHANGED <<old_content, new_content, dpc, diff, run, firstChanges>>
    /\ UNCHANGED <<pvars, hvars, xvars>>

\* line.startswith('  ')
CountUnchanged ==
    /\ dpc = "count"
    /\ di <= Len(diff)
    /\ diff[di].tag = " "
    /\ changes' = [changes EXCEPT !.unchanged_lines = @ + 1]
    /\ di' = di + 1
    /\ UNCHANGED <<old_content, new_content, dpc, diff, run, firstChanges>>
    /\ UNCHANGED <<pvars, hvars, xvars>>

\* a hint line counted as an added line as well
CountHint_AsAdded ==
    /\ dpc = "count"
    /\ di <= Len(diff)
    /\ diff[di].tag = "?"
    /\ changes' = [changes EXCEPT !.modified_lines = @ + 1, !.added_lines = @ + 1]
    /\ di' = di + 1
    /\ UNCHANGED <<old_content, new_content, dpc, diff, run, firstChanges>>
    /\ UNCHANGED <<pvars, hvars, xvars>>

\* line.startswith('? ')
CountHint ==
    /\ dpc = "count"
    /\ di <= Len(diff)
    /\ diff[di].tag = "?"
    /\ changes' = [changes EXCEPT !.modified_lines = @ + 1]
    /\ di' = di + 1
    /\ UNCHANGED <<old_content, new_content, dpc, diff, run, firstChanges>>
    /\ UNCHANGED <<pvars, hvars, xvars>>

\* the first loop is exhausted
CountEnd ==
    /\ dpc = "count"
    /\ di > Len(diff)
    /\ dpc' = "classify"
    /\ di' = 1
    /\ UNCHANGED <<old_content, new_content, diff, changes, run, firstChanges>>
    /\ UNCHANGED <<pvars, hvars, xvars>>

\* the loop over all of changes['line_changes'], the slice forgotten
ClassifyStep_NoLimit ==
    /\ dpc = "classify"
    /\ di <= Len(changes.line_changes)
    /\ LET kind == ClassifyKind(changes.line_changes[di][2])
       IN  changes' = IF kind = "none" THEN changes
                      ELSE [changes EXCEPT !.changes_by_type = Incr(@, kind)]
    /\ di' = di + 1
    /\ UNCHANGED <<old_content, new_content, dpc, diff, run, firstChanges>>
    /\ UNCHANGED <<pvars, hvars, xvars>>

\* one iteration of the loop over changes['line_changes'][:100]
ClassifyStep ==
    /\ dpc = "classify"
    /\ di <= Len(changes.line_changes) /\ di <= ClassifyLimit
    /\ LET kind == ClassifyKind(changes.line_changes[di][2])
       IN  changes' = IF kind = "none" THEN changes
                      ELSE [changes EXCEPT !.changes_by_type = Incr(@, kind)]
    /\ di' = di + 1
    /\ UNCHANGED <<old_content, new_content, dpc, diff, run, firstChanges>>
    /\ UNCHANGED <<pvars, hvars, xvars>>

\* return changes
ClassifyEnd ==
    /\ dpc = "classify"
    /\ di > Len(changes.line_changes) \/ di > ClassifyLimit
    /\ dpc' = "done"
    /\ UNCHANGED <<old_content, new_content, diff, di, changes, run, firstChanges>>
    /\ UNCHANGED <<pvars, hvars, xvars>>

----------------------------------------------------------------------------
(* compare_commits: difflib.unified_diff with three lines of context.  An   *)
(* opcode is [tag, i1, i2, j1, j2], ranges as in the library.               *)

Code(tag, i1, i2, j1, j2) == [tag |-> tag, i1 |-> i1, i2 |-> i2, j1 |-> j1, j2 |-> j2]

Max(x, y) == IF x > y THEN x ELSE y

Min(x, y) == IF x < y THEN x ELSE y

RECURSIVE Opcodes(_, _, _, _, _, _)
\* SequenceMatcher.get_opcodes: what lies before matching block n, then the
\* block; after the last block what lies before the closing sentinel
Opcodes(a, b, blocks, n, i, j) ==
    LET last == n > Len(blocks)
        ai == IF last THEN Len(a) ELSE blocks[n][1]
        bj == IF last THEN Len(b) ELSE blocks[n][2]
        size == IF last THEN 0 ELSE blocks[n][3]
        gap == IF i < ai /\ j < bj THEN <<Code("replace", i, ai, j, bj)>>
               ELSE IF i < ai THEN <<Code("delete", i, ai, j, bj)>>
               ELSE IF j < bj THEN <<Code("insert", i, ai, j, bj)>>
               ELSE << >>
        equal == IF size > 0 THEN <<Code("equal", ai, ai + size, bj, bj + size)>> ELSE << >>
    IN  IF last THEN gap
        ELSE gap \o equal \o Opcodes(a, b, blocks, n + 1, ai + size, bj + size)

\* get_grouped_opcodes: the leading and the trailing equal range cut to n lines
TrimEnds(codes, n) ==
    LET c0 == IF codes = << >> THEN <<Code("equal", 0, 1, 0, 1)>> ELSE codes
        c1 == IF c0[1].tag = "equal"
              THEN [c0 EXCEPT ![1] = Code("equal", Max(c0[1].i1, c0[1].i2 - n), c0[1].i2,
                                                    Max(c0[1].j1, c0[1].j2 - n), c0[1].j2)]
              ELSE c0
        k == Len(c1)
    IN  IF c1[k].tag = "equal"
        THEN [c1 EXCEPT ![k] = Code("equal", c1[k].i1, Min(c1[k].i2, c1[k].i1 + n),
                                             c1[k].j1, Min(c1[k].j2, c1[k].j1 + n))]
        ELSE c1

RECURSIVE Groups(_, _, _, _)
\* get_grouped_opcodes: an equal range of more than 2n lines closes the group
\* with its first n lines and opens the next with its last n lines; a group
\* of one equal range is not given
Groups(codes, k, group, n) ==
    IF k > Len(codes)
    THEN IF group # << >> /\ ~(Len(group) = 1 /\ group[1].tag = "equal")
         THEN <<group>> ELSE << >>
    ELSE LET c == codes[k]
         IN  IF c.tag = "equal" /\ c.i2 - c.i1 > n + n
             THEN <<Append(group, Code("equal", c.i1, Min(c.i2, c.i1 + n),
                                                c.j1, Min(c.j2, c.j1 + n)))>>
                  \o Groups(codes, k + 1,
                            <<Code("equal", Max(c.i1, c.i2 - n), c.i2,
                                            Max(c.j1, c.j2 - n), c.j2)>>, n)
             ELSE Groups(codes, k + 1, Append(group, c), n)

\* _format_range_unified: the first line and the length, the length left out
\* when it is 1, the line before when the range is empty
FormatRange(start, stop) ==
    LET length == stop - start
    IN  IF length = 1 THEN <<start + 1>>
        ELSE IF length = 0 THEN <<start, length>>
        ELSE <<start + 1, length>>

\* the lines of one opcode
CodeLines(a, b, c) ==
    IF c.tag = "equal" THEN Dump(" ", a, c.i1, c.i2)
    ELSE (IF c.tag \in {"replace", "delete"} THEN Dump("-", a, c.i1, c.i2) ELSE << >>)
         \o (IF c.tag \in {"replace", "insert"} THEN Dump("+", b, c.j1, c.j2) ELSE << >>)

RECURSIVE GroupLines(_, _, _, _)
GroupLines(a, b, group, k) ==
    IF k > Len(group) THEN << >>
    ELSE CodeLines(a, b, group[k]) \o GroupLines(a, b, group, k + 1)

RECURSIVE Hunks(_, _, _, _)
\* the '@@' line of each group and the lines of the group
Hunks(a, b, groups, g) ==
    IF g > Len(groups) THEN << >>
    ELSE LET group == groups[g]
             first == group[1]
             last == group[Len(group)]
         IN  <<[tag |-> "@@", line |-> <<FormatRange(first.i1, last.i2),
                                         FormatRange(first.j1, last.j2)>>]>>
             \o GroupLines(a, b, group, 1)
             \o Hunks(a, b, groups, g + 1)

\* difflib.unified_diff(a, b, fromfile, tofile, lineterm=""): nothing when no
\* group is given, else the two file lines and the hunks
UnifiedDiff(a, b, fromfile, tofile) ==
    LET blocks == MatchingBlocks(a, b, 0, Len(a), 0, Len(b))
        groups == Groups(TrimEnds(Opcodes(a, b, blocks, 1, 0, 0), 3), 1, << >>, 3)
    IN  IF groups = << >> THEN << >>
        ELSE <<[tag |-> "---", line |-> fromfile], [tag |-> "+++", line |-> tofile]>>
             \o Hunks(a, b, groups, 1)

\* the revision names given to compare_commits
OldSha == <<"0", "1", "2", "3", "4", "5", "6", "7", "8", "9">>

NewSha == <<"f", "e", "d", "c", "b", "a", "9", "8", "7", "6">>

\* f"a/{old_sha[:8]}"
FileLabel(prefix, name) == <<prefix>> \o SubSeq(name, 1, Min(8, Len(name)))

\* if not old_content or not new_content: return None
CompareEmpty ==
    /\ dpc \in {"done", "raised"}
    /\ cpc = "start"
    /\ Falsy(old_content) \/ Falsy(new_content)
    /\ udiff' = None
    /\ cpc' = "done"
    /\ UNCHANGED <<pvars, hvars, dvars, vvars, svars, gvars, avars, nvars>>

\* splitlines and list(difflib.unified_diff(...)); None has no splitlines and
\* the call raises
CompareDiff ==
    /\ dpc \in {"done", "raised"}
    /\ cpc = "start"
    /\ ~(Falsy(old_content) \/ Falsy(new_content))
    /\ IF old_content = None \/ new_content = None
       THEN /\ cpc' = "raised"
            /\ UNCHANGED udiff
       ELSE /\ udiff' = UnifiedDiff(old_content, new_content,
                                    FileLabel("a/", OldSha), FileLabel("b/", NewSha))
            /\ cpc' = "done"
    /\ UNCHANGED <<pvars, hvars, dvars, vvars, svars, gvars, avars, nvars>>

\* the same two texts are compared again, old and new exchanged
CompareReversed ==
    /\ dpc = "done"
    /\ cpc = "done"
    /\ run = 1
    /\ old_content' = new_content
    /\ new_content' = old_content
    /\ firstChanges' = changes
    /\ run' = 2
    /\ dpc' = "start"
    /\ diff' = << >>
    /\ di' = 1
    /\ changes' = EmptyDict
    /\ cpc' = "start"
    /\ udiff' = << >>
    /\ UNCHANGED <<pvars, hvars, vvars, svars, gvars, avars, nvars>>

Texts == SeqsUpTo(LinePool, MaxLines)

UnitLines == UNION {[1..n -> Vocabulary] : n \in 1..MaxUnits}

\* the most lines a long text adds
MaxBulk == 101

\* a long pair of texts: k link lines then a kept line, against the kept line
\* then n origin lines
Bulk(k, n) ==
    << [i \in 1..(k + 1) |-> IF i <= k THEN Line_b ELSE Line_a],
       [i \in 1..(n + 1) |-> IF i = 1 THEN Line_a ELSE Line_o] >>

\* long texts whose changed lines number just below, exactly and above the
\* classification limit, with and without removed lines before the added ones
BulkInputs == {Bulk(k, n) : k \in {0, 60}, n \in (MaxBulk - 2)..MaxBulk}

\* an absent text with any text, on either side
AbsentInputs == ({None} \X (Texts \cup {None})) \cup (Texts \X {None})

\* pairs of texts over the pool, one line of any units added to a text, the
\* long texts and the absent ones
DiffInputs ==
    (Texts \X Texts) \cup {<< <<Line_a>>, <<Line_a, l>> >> : l \in UnitLines}
        \cup BulkInputs \cup AbsentInputs

DiffInit ==
    /\ \E in \in DiffInputs : old_content = in[1] /\ new_content = in[2]
    /\ dpc = "start"
    /\ diff = << >>
    /\ di = 1
    /\ changes = EmptyDict
    /\ run = 1
    /\ firstChanges = EmptyDict
    /\ cpc = "start"
    /\ udiff = << >>
    /\ ParseIdle
    /\ HierIdle
    /\ ViewerIdle
    /\ StatsIdle
    /\ ContentIdle
    /\ NothingDrawn
    /\ NewIdle

DiffNext ==
    \/ AnalyzeEmpty
    \/ AnalyzeStart
    \/ CountAdded
    \/ CountRemoved
    \/ CountUnchanged
    \/ CountHint
    \/ CountEnd
    \/ ClassifyStep
    \/ ClassifyEnd
    \/ CompareEmpty
    \/ CompareDiff
    \/ CompareReversed

SpecDiff == DiffInit /\ [][DiffNext]_vars

----------------------------------------------------------------------------
(* URDF3DViewer.parse_geometry, parse_origin and get_link_type, of the      *)
(* viewer embedded in urdf-viewer.py and of the one of urdf-3d-viewer.py.   *)
(* An attribute value is the sequence of its characters; a number is held   *)
(* as m / 10^e, the fraction without closing zeros.                         *)

\* the most characters of a free attribute value
MaxChars == 5

\* the most words of a link name
MaxWords == 2

Digits == <<"0", "1", "2", "3", "4", "5", "6", "7", "8", "9">>

IsDigit(c) == \E d \in 1..10 : Digits[d] = c

DigitVal(c) == (CHOOSE d \in 1..10 : Digits[d] = c) - 1

RECURSIVE Pow10(_)
Pow10(n) == IF n = 0 THEN 1 ELSE 10 * Pow10(n - 1)

RECURSIVE Num(_, _)
\* the number m / 10^e
Num(m, e) == IF e > 0 /\ m % 10 = 0 THEN Num(m \div 10, e - 1) ELSE [m |-> m, e |-> e]

RECURSIVE DigitsVal(_, _)
\* the number a run of digits spells, most significant first, onto acc
DigitsVal(ds, acc) ==
    IF ds = << >> THEN acc ELSE DigitsVal(Tail(ds), 10 * acc + DigitVal(Head(ds)))

\* the characters of cs before the first c, and those after it
Before(cs, c) ==
    IF \E i \in 1..Len(cs) : cs[i] = c
    THEN SubSeq(cs, 1, (CHOOSE i \in 1..Len(cs) : cs[i] = c /\ \A h \in 1..(i - 1) : cs[h] # c) - 1)
    ELSE cs

After(cs, c) ==
    IF \E i \in 1..Len(cs) : cs[i] = c
    THEN SubSeq(cs, (CHOOSE i \in 1..Len(cs) : cs[i] = c /\ \A h \in 1..(i - 1) : cs[h] # c) + 1, Len(cs))
    ELSE << >>

AllDigits(cs) == \A i \in 1..Len(cs) : IsDigit(cs[i])

\* float(token) for a token of digits, dots and minus signs: a number when
\* the token is an optional sign and digits with at most one dot among them,
\* one digit at least; ValueError otherwise
Float(token) ==
    LET neg == token # << >> /\ Head(token) = "-"
        body == IF neg THEN Tail(token) ELSE token
        whole == Before(body, ".")
        frac == After(body, ".")
        ok == /\ AllDigits(whole) /\ AllDigits(frac)
              /\ Len(whole) + Len(frac) >= 1
        v == Num(DigitsVal(whole \o frac, 0), Len(frac))
    IN  IF ok THEN [ok |-> TRUE, v |-> IF neg THEN [m |-> 0 - v.m, e |-> v.e] ELSE v]
        ELSE [ok |-> FALSE, v |-> Num(0, 0)]

RECURSIVE Split(_, _)
\* str.split(): the runs of characters between white space; cur is the run
\* being read
Split(cs, cur) ==
    IF cs = << >> THEN (IF cur = << >> THEN << >> ELSE <<cur>>)
    ELSE IF Head(cs) = " "
         THEN (IF cur = << >> THEN << >> ELSE <<cur>>) \o Split(Tail(cs), << >>)
         ELSE Split(Tail(cs), Append(cur, Head(cs)))

\* list(map(float, value.split())): the numbers, or ValueError when a token
\* is no number
Floats(value) ==
    LET tokens == Split(value, << >>)
    IN  IF \A i \in 1..Len(tokens) : Float(tokens[i]).ok
        THEN [ok |-> TRUE, v |-> [i \in 1..Len(tokens) |-> Float(tokens[i]).v]]
        ELSE [ok |-> FALSE, v |-> << >>]

\* xs[:3]
FirstThree(xs) == SubSeq(xs, 1, Min(3, Len(xs)))

\* [\d\.]+ , [\d\.\s]+ and [-\d\.\s]+ : a value of one character at least, all
\* of the class
InClass(value, extra) ==
    /\ value # << >>
    /\ \A i \in 1..Len(value) : IsDigit(value[i]) \/ value[i] = "." \/ value[i] \in extra

\* a tag of a fragment: its name as written and its attributes in the order
\* written, each a name and a value
Tag(k, attrs) == [k |-> k, attrs |-> attrs]

Attr(n, v) == [n |-> n, v |-> v]

\* lower case of a tag name
LowerTag(k) ==
    CASE k = "BOX" -> "box"
      [] k = "CYLINDER" -> "cylinder"
      [] k = "SPHERE" -> "sphere"
      [] k = "ORIGIN" -> "origin"
      [] OTHER -> k

\* the tag name is matched as written by urdf-3d-viewer.py, with
\* re.IGNORECASE by the viewer embedded in urdf-viewer.py
TagIs(which, tag, k) == IF which = "embedded" THEN LowerTag(tag.k) = k ELSE tag.k = k

\* attribute number i of the tag is named n and its value is of the class
AttrIs(tag, i, n, extra) ==
    /\ Len(tag.attrs) >= i
    /\ tag.attrs[i].n = n
    /\ InClass(tag.attrs[i].v, extra)

\* re.search: the first tag of the fragment the pattern matches, 0 when none
Search(frag, Matches1(_)) ==
    IF \E i \in 1..Len(frag) : Matches1(frag[i])
    THEN CHOOSE i \in 1..Len(frag) : Matches1(frag[i]) /\ \A h \in 1..(i - 1) : ~Matches1(frag[h])
    ELSE 0

\* <box\s+size="([\d\.\s]+)"
BoxMatch(which, frag) ==
    LET M(tag) == TagIs(which, tag, "box") /\ AttrIs(tag, 1, "size", {" "})
    IN  Search(frag, M)

\* <cylinder\s+radius="([\d\.]+)"\s+length="([\d\.]+)"
CylinderMatch(which, frag) ==
    LET M(tag) == /\ TagIs(which, tag, "cylinder")
                  /\ AttrIs(tag, 1, "radius", {})
                  /\ AttrIs(tag, 2, "length", {})
    IN  Search(frag, M)

\* <sphere\s+radius="([\d\.]+)"
SphereMatch(which, frag) ==
    LET M(tag) == TagIs(which, tag, "sphere") /\ AttrIs(tag, 1, "radius", {})
    IN  Search(frag, M)

\* <origin\s+xyz="([-\d\.\s]+)"(?:\s+rpy="([-\d\.\s]+)")?
OriginMatch(which, frag) ==
    LET M(tag) == TagIs(which, tag, "origin") /\ AttrIs(tag, 1, "xyz", {" ", "-"})
    IN  Search(frag, M)

\* group(2) of the origin pattern: given when an rpy value of the class
\* follows xyz
HasRpy(tag) == AttrIs(tag, 2, "rpy", {" ", "-"})

\* 0.1 and 0.0
Tenth == Num(1, 1)

Zero == Num(0, 0)

DefaultBox == [type |-> "box", size |-> <<Tenth, Tenth, Tenth>>]

ZeroVector == <<Zero, Zero, Zero>>

DefaultOrigin == [xyz |-> ZeroVector, rpy |-> ZeroVector]

\* the call returns value / raises ValueError
Returns(value) == vpc' = "done" /\ vresult' = value

Raises == vpc' = "raised" /\ vresult' = [raised |-> "ValueError"]

\* a size of two numbers taken for a box
EnoughSizes_Two(sizes) == Len(sizes) >= 2

\* if len(sizes) >= 3
EnoughSizes(sizes) == Len(sizes) >= 3

\* parse_geometry: the box pattern matches; the sizes are converted, and a
\* box is returned when there are three of them
GeomBox ==
    /\ vfun = "parse_geometry" /\ vpc = "box"
    /\ BoxMatch(viewer, varg) # 0
    /\ LET sizes == Floats(varg[BoxMatch(viewer, varg)].attrs[1].v)
       IN  IF ~sizes.ok THEN Raises
           ELSE IF EnoughSizes(sizes.v)
                THEN Returns([type |-> "box", size |-> FirstThree(sizes.v)])
                ELSE vpc' = "cylinder" /\ UNCHANGED vresult
    /\ UNCHANGED <<viewer, vfun, written, varg, otherResult>>
    /\ UNCHANGED <<pvars, hvars, dvars, cvars, svars, gvars, avars, nvars>>

\* the box pattern matches nowhere
GeomBoxNone ==
    /\ vfun = "parse_geometry" /\ vpc = "box"
    /\ BoxMatch(viewer, varg) = 0
    /\ vpc' = "cylinder"
    /\ UNCHANGED <<viewer, vfun, written, varg, vresult, otherResult>>
    /\ UNCHANGED <<pvars, hvars, dvars, cvars, svars, gvars, avars, nvars>>

\* the cylinder pattern matches
GeomCylinder ==
    /\ vfun = "parse_geometry" /\ vpc = "cylinder"
    /\ CylinderMatch(viewer, varg) # 0
    /\ LET tag == varg[CylinderMatch(viewer, varg)]
           radius == Float(tag.attrs[1].v)
           length == Float(tag.attrs[2].v)
       IN  IF radius.ok /\ length.ok
           THEN Returns([type |-> "cylinder", radius |-> radius.v, length |-> length.v])
           ELSE Raises
    /\ UNCHANGED <<viewer, vfun, written, varg, otherResult>>
    /\ UNCHANGED <<pvars, hvars, dvars, cvars, svars, gvars, avars, nvars>>

GeomCylinderNone ==
    /\ vfun = "parse_geometry" /\ vpc = "cylinder"
    /\ CylinderMatch(viewer, varg) = 0
    /\ vpc' = "sphere"
    /\ UNCHANGED <<viewer, vfun, written, varg, vresult, otherResult>>
    /\ UNCHANGED <<pvars, hvars, dvars, cvars, svars, gvars, avars, nvars>>

\* the sphere pattern matches
GeomSphere ==
    /\ vfun = "parse_geometry" /\ vpc = "sphere"
    /\ SphereMatch(viewer, varg) # 0
    /\ LET radius == Float(varg[SphereMatch(viewer, varg)].attrs[1].v)
       IN  IF radius.ok THEN Returns([type |-> "sphere", radius |-> radius.v])
           ELSE Raises
    /\ UNCHANGED <<viewer, vfun, written, varg, otherResult>>
    /\ UNCHANGED <<pvars, hvars, dvars, cvars, svars, gvars, avars, nvars>>

\* return {'type': 'box', 'size': [0.1, 0.1, 0.1]}
GeomDefault ==
    /\ vfun = "parse_geometry" /\ vpc = "sphere"
    /\ SphereMatch(viewer, varg) = 0
    /\ Returns(DefaultBox)
    /\ UNCHANGED <<viewer, vfun, written, varg, otherResult>>
    /\ UNCHANGED <<pvars, hvars, dvars, cvars, svars, gvars, avars, nvars>>

\* rpy of fewer than three numbers: replaced by zeros in urdf-viewer.py, kept
\* in urdf-3d-viewer.py
ShortRpy(which, rpy) == IF which = "embedded" /\ Len(rpy) < 3 THEN ZeroVector ELSE rpy

\* parse_origin: the origin pattern matches
Origin ==
    /\ vfun = "parse_origin" /\ vpc = "origin"
    /\ OriginMatch(viewer, varg) # 0
    /\ LET tag == varg[OriginMatch(viewer, varg)]
           xyz == Floats(tag.attrs[1].v)
           rpy == IF HasRpy(tag) THEN Floats(tag.attrs[2].v) ELSE [ok |-> TRUE, v |-> ZeroVector]
       IN  IF ~xyz.ok \/ ~rpy.ok THEN Raises
           ELSE Returns([xyz |-> FirstThree(IF Len(xyz.v) < 3 THEN ZeroVector ELSE xyz.v),
                         rpy |-> FirstThree(IF HasRpy(tag) THEN ShortRpy(viewer, rpy.v)
                                            ELSE ZeroVector)])
    /\ UNCHANGED <<viewer, vfun, written, varg, otherResult>>
    /\ UNCHANGED <<pvars, hvars, dvars, cvars, svars, gvars, avars, nvars>>

\* return {'xyz': [0.0, 0.0, 0.0], 'rpy': [0.0, 0.0, 0.0]}
OriginNone ==
    /\ vfun = "parse_origin" /\ vpc = "origin"
    /\ OriginMatch(viewer, varg) = 0
    /\ Returns(DefaultOrigin)
    /\ UNCHANGED <<viewer, vfun, written, varg, otherResult>>
    /\ UNCHANGED <<pvars, hvars, dvars, cvars, svars, gvars, avars, nvars>>

\* the words link names are made of, and some written with capitals
Words ==
    {"base", "root", "chassis", "wheel", "caster", "camera", "sensor", "lidar",
     "gripper", "hand", "finger", "joint", "link", "arm", "_"}

CapitalWords == {"BASE", "Chassis", "Lidar", "LINK"}

\* str.lower() of a word
LowerWord(w) ==
    CASE w = "BASE" -> "base"
      [] w = "Chassis" -> "chassis"
      [] w = "Lidar" -> "lidar"
      [] w = "LINK" -> "link"
      [] OTHER -> w

LowerName(link_name) == [i \in 1..Len(link_name) |-> LowerWord(link_name[i])]

\* 'word' in name_lower
In(word, name_lower) == \E i \in 1..Len(name_lower) : name_lower[i] = word

\* get_link_type of the viewer embedded in urdf-viewer.py
GetLinkTypeEmbedded(link_name) ==
    LET name_lower == LowerName(link_name)
    IN  IF In("base", name_lower) \/ In("root", name_lower) \/ In("chassis", name_lower)
        THEN "base"
        ELSE IF In("wheel", name_lower) \/ In("caster", name_lower) THEN "wheel"
        ELSE IF In("camera", name_lower) \/ In("sensor", name_lower) \/ In("lidar", name_lower)
        THEN "sensor"
        ELSE IF In("gripper", name_lower) \/ In("hand", name_lower) \/ In("finger", name_lower)
        THEN "gripper"
        ELSE IF In("joint", name_lower) THEN "joint"
        ELSE IF In("link", name_lower) THEN "link"
        ELSE "default"

\* get_link_type of urdf-3d-viewer.py
GetLinkTypeStandalone(link_name) ==
    LET name_lower == LowerName(link_name)
    IN  IF In("base", name_lower) \/ In("root", name_lower) THEN "base"
        ELSE IF In("wheel", name_lower) THEN "wheel"
        ELSE IF In("camera", name_lower) \/ In("sensor", name_lower) \/ In("lidar", name_lower)
        THEN "sensor"
        ELSE IF In("gripper", name_lower) \/ In("hand", name_lower) \/ In("finger", name_lower)
        THEN "gripper"
        ELSE IF In("joint", name_lower) THEN "joint"
        ELSE "link"

\* get_link_type: one of the two methods, by the viewer that runs
LinkType ==
    /\ vfun = "get_link_type" /\ vpc = "type"
    /\ Returns([type |-> IF viewer = "embedded" THEN GetLinkTypeEmbedded(varg)
                         ELSE GetLinkTypeStandalone(varg)])
    /\ UNCHANGED <<viewer, vfun, written, varg, otherResult>>
    /\ UNCHANGED <<pvars, hvars, dvars, cvars, svars, gvars, avars, nvars>>

\* where a method starts
StartOf(fun) ==
    CASE fun = "parse_geometry" -> "box"
      [] fun = "parse_origin" -> "origin"
      [] fun = "get_link_type" -> "type"

\* the same method of the other viewer is called on the same argument
OtherViewer ==
    /\ viewer = "embedded"
    /\ vpc \in {"done", "raised"}
    /\ viewer' = "standalone"
    /\ otherResult' = vresult
    /\ vresult' = EmptyDict
    /\ vpc' = StartOf(vfun)
    /\ UNCHANGED <<vfun, written, varg>>
    /\ UNCHANGED <<pvars, hvars, dvars, cvars, svars, gvars, avars, nvars>>

----------------------------------------------------------------------------
(* The fragments and names given to the viewers *)

RECURSIVE IntDigits(_)
\* the decimal digits of a natural number
IntDigits(n) ==
    IF n < 10 THEN <<Digits[n + 1]>>
    ELSE IntDigits(n \div 10) \o <<Digits[(n % 10) + 1]>>

RECURSIVE FracChars(_, _)
\* the digits after the point of f / 10^k, the closing zeros left out
FracChars(f, k) ==
    IF f = 0 THEN << >>
    ELSE <<Digits[(f \div Pow10(k - 1)) + 1]>> \o FracChars(f % Pow10(k - 1), k - 1)

\* the numeral an author writes for a number: 0.25, 1, 2.5
Numeral(v) ==
    IntDigits(v.m \div Pow10(v.e))
        \o (IF v.e = 0 THEN << >> ELSE <<".">> \o FracChars(v.m % Pow10(v.e), v.e))

\* 0.25, 0.5, 1 and 2.25
Numbers == {Num(25, 2), Num(5, 1), Num(1, 0), Num(225, 2)}

RECURSIVE NumeralList(_)
\* numerals separated by one space
NumeralList(vs) ==
    IF vs = << >> THEN << >>
    ELSE IF Len(vs) = 1 THEN Numeral(vs[1])
    ELSE Numeral(vs[1]) \o <<" ">> \o NumeralList(Tail(vs))

\* the shapes an author writes; a cylinder with its attributes in either order
Shapes ==
    {[type |-> "box", size |-> sz] : sz \in [1..3 -> Numbers]}
        \cup {[type |-> "cylinder", radius |-> r, length |-> l, order |-> o] :
                r \in Numbers, l \in Numbers, o \in {"radius length", "length radius"}}
        \cup {[type |-> "sphere", radius |-> r] : r \in Numbers}

\* the fragment holding the one tag of a shape
RenderShape(w) ==
    CASE w.type = "box" -> <<Tag("box", <<Attr("size", NumeralList(w.size))>>)>>
      [] w.type = "sphere" -> <<Tag("sphere", <<Attr("radius", Numeral(w.radius))>>)>>
      [] w.type = "cylinder" ->
           IF w.order = "radius length"
           THEN <<Tag("cylinder", <<Attr("radius", Numeral(w.radius)),
                                    Attr("length", Numeral(w.length))>>)>>
           ELSE <<Tag("cylinder", <<Attr("length", Numeral(w.length)),
                                    Attr("radius", Numeral(w.radius))>>)>>

\* free attribute values: any characters of a digit, the point, the space and
\* the minus sign
RawChars == {"1", ".", " ", "-"}

\* the values of up to `most` characters
RawValues(most) == SeqsUpTo(RawChars, most)

ShortValues(most) == SeqsUpTo(RawChars, most - 1)

One == <<"1">>

Ones == <<"1", " ", "1", " ", "1">>

\* fragments with a free box size, alone, before a sphere and before a box of
\* three numbers; a cylinder and a sphere with a free radius; a box tag in
\* capitals; the empty fragment
GeometryFragments(most) ==
    {<<Tag("box", <<Attr("size", v)>>)>> : v \in RawValues(most)}
        \cup {<<Tag("box", <<Attr("size", v)>>), Tag("sphere", <<Attr("radius", One)>>)>> :
                v \in RawValues(most)}
        \cup {<<Tag("box", <<Attr("size", v)>>), Tag("box", <<Attr("size", Ones)>>)>> :
                v \in ShortValues(most)}
        \cup {<<Tag("cylinder", <<Attr("radius", v), Attr("length", One)>>)>> : v \in ShortValues(most)}
        \cup {<<Tag("sphere", <<Attr("radius", v)>>)>> : v \in ShortValues(most)}
        \cup {<<Tag("BOX", <<Attr("size", Ones)>>)>>, << >>}

\* fragments with a free xyz, alone and before an rpy of three numbers; a free
\* rpy after an xyz of three numbers; rpy written before xyz; an origin tag in
\* capitals; the empty fragment
OriginFragments(most) ==
    {<<Tag("origin", <<Attr("xyz", v)>>)>> : v \in RawValues(most)}
        \cup {<<Tag("origin", <<Attr("xyz", v), Attr("rpy", Ones)>>)>> : v \in RawValues(most)}
        \cup {<<Tag("origin", <<Attr("xyz", Ones), Attr("rpy", v)>>)>> : v \in RawValues(most)}
        \cup {<<Tag("origin", <<Attr("rpy", Ones), Attr("xyz", Ones)>>)>>,
              <<Tag("ORIGIN", <<Attr("xyz", Ones)>>)>>, << >>}

\* link names of one word or more
Names == UNION {[1..n -> Words \cup CapitalWords] : n \in 1..MaxWords}

Call(fun, w, arg) == [fun |-> fun, written |-> w, arg |-> arg]

ViewerInputs(most) ==
    {Call("parse_geometry", w, RenderShape(w)) : w \in Shapes}
        \cup {Call("parse_geometry", [type |-> "raw"], f) : f \in GeometryFragments(most)}
        \cup {Call("parse_origin", [type |-> "raw"], f) : f \in OriginFragments(most)}
        \cup {Call("get_link_type", [type |-> "raw"], n) : n \in Names}

ViewerInit ==
    /\ viewer = "embedded"
    /\ \E in \in ViewerInputs(MaxChars) :
         /\ vfun = in.fun
         /\ written = in.written
         /\ varg = in.arg
         /\ vpc = StartOf(in.fun)
    /\ vresult = EmptyDict
    /\ otherResult = EmptyDict
    /\ ParseIdle
    /\ HierIdle
    /\ DiffIdle
    /\ CompareIdle
    /\ StatsIdle
    /\ ContentIdle
    /\ NothingDrawn
    /\ NewIdle

ViewerNext ==
    \/ GeomBox
    \/ GeomBoxNone
    \/ GeomCylinder
    \/ GeomCylinderNone
    \/ GeomSphere
    \/ GeomDefault
    \/ Origin
    \/ OriginNone
    \/ LinkType
    \/ OtherViewer

SpecViewer == ViewerInit /\ [][ViewerNext]_vars

----------------------------------------------------------------------------
(* analyze_urdf *)
(*                                                                          *)
(* The document is the sequence of the units its regular expressions can    *)
(* tell apart: tags as written, the type, size and mass attributes with     *)
(* their values, and line breaks.                                           *)

\* the most parts of a document given to analyze_urdf
MaxParts == 2

Chars(a, b, c) == <<a, " ", b, " ", c>>

\* the parts documents are made of
StatParts ==
    { << [k |-> "link", name |-> "a"] >>,                    \* <link name="a">
      << [k |-> "link", name |-> "b"], [k |-> "newline"] >>,
      << [k |-> "linkbare"] >>,                              \* <link>
      << [k |-> "joint", name |-> "j1"], [k |-> "type", ty |-> "revolute"],
         [k |-> "parent", link |-> "a"], [k |-> "child", link |-> "b"] >>,
      << [k |-> "joint", name |-> "j2"], [k |-> "type", ty |-> "FIXED"],
         [k |-> "parent", link |-> "a"], [k |-> "child", link |-> "c"] >>,
      << [k |-> "type", ty |-> "prismatic"] >>,
      << [k |-> "type", ty |-> "continuous"] >>,
      << [k |-> "type", ty |-> "floating"] >>,
      << [k |-> "visual"] >>,                                \* <visual>
      << [k |-> "VISUAL"] >>,                                \* <VISUAL>
      << [k |-> "visualnamed"] >>,                           \* <visual name="v">
      << [k |-> "collision"] >>,                             \* <collision>
      << [k |-> "box"], [k |-> "size", v |-> Chars("1", "2", "3")] >>,
      << [k |-> "BOX"], [k |-> "size", v |-> <<"1", ".", "5", " ", "2">>] >>,
      << [k |-> "box"], [k |-> "size", v |-> <<"1", " ", ".", " ", "1">>] >>,
      << [k |-> "box"], [k |-> "size", v |-> <<"-", "1">>] >>,
      << [k |-> "cylinder"] >>,
      << [k |-> "sphere"] >>,
      << [k |-> "mesh"] >>,
      << [k |-> "mass", v |-> <<"1", ".", "5">>] >>,         \* <mass value="1.5"/>
      << [k |-> "mass", v |-> <<"1", ".", "2", ".", "3">>] >>,
      << [k |-> "mass", v |-> <<"-", "1">>] >>,
      << [k |-> "newline"] >> }

RECURSIVE Concat(_)
Concat(ps) == IF ps = << >> THEN << >> ELSE Head(ps) \o Concat(Tail(ps))

StatDocs == {Concat(ps) : ps \in UNION {[1..n -> StatParts] : n \in 0..MaxParts}}

\* lower case of a tag name or of an attribute value
LowerKind(k) ==
    CASE k = "VISUAL" -> "visual"
      [] k = "BOX" -> "box"
      [] k = "FIXED" -> "fixed"
      [] OTHER -> k

\* len(re.findall(pattern, content)) for a pattern one unit matches
CountUnits(t, Matches1(_)) == Cardinality({i \in 1..Len(t) : Matches1(t[i])})

\* len(content.split("\n")): one more than the line breaks
LineCount_Split(t) ==
    LET IsBreak(u) == u.k = "newline"
    IN  CountUnits(t, IsBreak) + 1

\* len(content.splitlines()): a line for every line break and one for what
\* follows the last line break, if anything does
LineCount(t) ==
    LET IsBreak(u) == u.k = "newline"
    IN  CountUnits(t, IsBreak) + (IF t # << >> /\ t[Len(t)].k # "newline" THEN 1 ELSE 0)

RECURSIVE StructureJoints(_, _)
\* the joints list of parse_urdf_structure: every match of the joint pattern
\* from position p on
StructureJoints(t, p) ==
    LET m == StructureJointMatch(t, p)
    IN  IF m[1] = 0 THEN << >>
        ELSE <<StructureJoint(t, m)>> \o StructureJoints(t, m[3] + 1)

\* parse_urdf_structure(content)
ParseUrdfStructure(t) ==
    IF t = << >>
    THEN [links |-> << >>, joints |-> << >>, graph |-> NoGraph]
    ELSE LET ls == FindAllLinks(t, 1)
             js == StructureJoints(t, 1)
         IN  [links |-> ls, joints |-> js, graph |-> BuildGraph(ls, js)]

\* the placeholders of 'size' and of 'mass' (transliterated)
SizeNotGiven == <<"Ne ukazan">>

MassNotGiven == <<"Ne ukazana">>

\* f"{x:.2f}" of a number that is not negative and has two fraction digits
\* at most
Fmt2(x) ==
    LET frac == x.m % Pow10(x.e)
        cents == IF x.e <= 2 THEN frac * Pow10(2 - x.e) ELSE frac \div Pow10(x.e - 2)
    IN  IntDigits(x.m \div Pow10(x.e)) \o <<".">>
            \o <<Digits[(cents \div 10) + 1], Digits[(cents % 10) + 1]>>

\* stats[key] = value
SetKey(d, key, value) == [x \in DOMAIN d \cup {key} |-> IF x = key THEN value ELSE d[x]]

\* the dict analyze_urdf starts from
AnalyzeUrdfCounts ==
    /\ spc = "start"
    /\ LET IsLink(u) == u.k = "link"
           IsJoint(u) == u.k = "joint"
           IsVisual(u) == LowerKind(u.k) = "visual"
           IsCollision(u) == LowerKind(u.k) = "collision"
       IN  stats' = [links |-> CountUnits(urdf, IsLink),
                     joints |-> CountUnits(urdf, IsJoint),
                     visuals |-> CountUnits(urdf, IsVisual),
                     collisions |-> CountUnits(urdf, IsCollision),
                     lines |-> LineCount(urdf),
                     size |-> SizeNotGiven,
                     structure |-> ParseUrdfStructure(urdf)]
    /\ spc' = "size"
    /\ UNCHANGED urdf
    /\ UNCHANGED <<pvars, hvars, dvars, cvars, vvars, gvars, avars, nvars>>

\* size_match and what follows from it
AnalyzeUrdfSize ==
    /\ spc = "size"
    /\ LET M(u) == u.k = "size" /\ InClass(u.v, {" "})
           i == Search(urdf, M)
           sizes == IF i = 0 THEN [ok |-> FALSE, v |-> << >>] ELSE Floats(urdf[i].v)
       IN  stats' = IF sizes.ok /\ Len(sizes.v) >= 3
                    THEN [stats EXCEPT !.size =
                             Fmt2(sizes.v[1]) \o <<" ", "x", " ">> \o Fmt2(sizes.v[2])
                                 \o <<" ", "x", " ">> \o Fmt2(sizes.v[3])]
                    ELSE stats
    /\ spc' = "mass"
    /\ UNCHANGED urdf
    /\ UNCHANGED <<pvars, hvars, dvars, cvars, vvars, gvars, avars, nvars>>

\* mass_match and what follows from it
AnalyzeUrdfMass ==
    /\ spc = "mass"
    /\ LET M(u) == u.k = "mass" /\ InClass(u.v, {})
           i == Search(urdf, M)
       IN  stats' = IF i = 0 THEN stats
                    ELSE IF Float(urdf[i].v).ok
                         THEN SetKey(stats, "mass", Fmt2(Float(urdf[i].v).v) \o <<" ", "kg">>)
                         ELSE SetKey(stats, "mass", MassNotGiven)
    /\ spc' = "joint_types"
    /\ UNCHANGED urdf
    /\ UNCHANGED <<pvars, hvars, dvars, cvars, vvars, gvars, avars, nvars>>

JointTypes == {"revolute", "prismatic", "fixed", "continuous"}

Geometries == {"box", "cylinder", "sphere", "mesh"}

\* stats['joint_types'] = joint_types
AnalyzeUrdfJointTypes ==
    /\ spc = "joint_types"
    /\ LET Typed(ty) == LET M(u) == u.k = "type" /\ LowerKind(u.ty) = ty
                        IN  CountUnits(urdf, M)
       IN  stats' = SetKey(stats, "joint_types", [ty \in JointTypes |-> Typed(ty)])
    /\ spc' = "geometries"
    /\ UNCHANGED urdf
    /\ UNCHANGED <<pvars, hvars, dvars, cvars, vvars, gvars, avars, nvars>>

\* stats['geometries'] = geometries; return stats
AnalyzeUrdfGeometries ==
    /\ spc = "geometries"
    /\ LET Shaped(g) == LET M(u) == LowerKind(u.k) = g
                        IN  CountUnits(urdf, M)
       IN  stats' = SetKey(stats, "geometries", [g \in Geometries |-> Shaped(g)])
    /\ spc' = "done"
    /\ UNCHANGED urdf
    /\ UNCHANGED <<pvars, hvars, dvars, cvars, vvars, gvars, avars, nvars>>

StatsInit ==
    /\ urdf \in StatDocs
    /\ spc = "start"
    /\ stats = EmptyDict
    /\ ParseIdle
    /\ HierIdle
    /\ DiffIdle
    /\ CompareIdle
    /\ ViewerIdle
    /\ ContentIdle
    /\ NothingDrawn
    /\ NewIdle

StatsNext ==
    \/ AnalyzeUrdfCounts
    \/ AnalyzeUrdfSize
    \/ AnalyzeUrdfMass
    \/ AnalyzeUrdfJointTypes
    \/ AnalyzeUrdfGeometries

SpecStats == StatsInit /\ [][StatsNext]_vars

----------------------------------------------------------------------------
(* get_file_content_for_commit: get_local_file_content and                  *)
(* get_github_file_content                                                  *)
(*                                                                          *)
(* A text is the sequence of its bytes.  The repository records, for every  *)
(* revision, the text of the file or its absence; the working tree holds    *)
(* the file or not.  The remote host serves what the repository records.    *)

Revisions == {"r1", "r2"}

\* the hashes a caller may ask for: the revisions and one that names none
Hashes == Revisions \cup {"r0"}

\* texts of one to three ASCII bytes
FileTexts == {<<97>>, <<97, 98>>, <<97, 98, 99>>}

\* no file, and the None a provider returns
Absent == << >>

Sources == {"local", "remote"}

\* what can go wrong: git.Repo(repo_path) or git show fails for a reason of
\* its own, the requests library is missing, a request raises (time-out,
\* connection error) or is answered by an error status, the API answer has
\* no 'content' key
Faults ==
    [git : {"ok", "raises"},
     requests : BOOLEAN,
     raw : {"ok", "raises", "status"},
     api : {"ok", "raises", "status", "nocontent"}]

NoFaults == [git |-> "ok", requests |-> TRUE, raw |-> "ok", api |-> "ok"]

\* the file is recorded at the revision the hash names
RecordedAt(h) == h \in Revisions /\ recorded[h] # Absent

RECURSIVE Sextets(_)
\* base64: three bytes are four sextets; one or two trailing bytes are two or
\* three sextets and padding (64)
Sextets(bytes) ==
    IF bytes = << >> THEN << >>
    ELSE IF Len(bytes) = 1
         THEN <<bytes[1] \div 4, (bytes[1] % 4) * 16, 64, 64>>
    ELSE IF Len(bytes) = 2
         THEN <<bytes[1] \div 4, (bytes[1] % 4) * 16 + bytes[2] \div 16,
                (bytes[2] % 16) * 4, 64>>
    ELSE <<bytes[1] \div 4, (bytes[1] % 4) * 16 + bytes[2] \div 16,
           (bytes[2] % 16) * 4 + bytes[3] \div 64, bytes[3] % 64>>
             \o Sextets(SubSeq(bytes, 4, Len(bytes)))

\* data['content'] of the API answer for a file
B64Encode(bytes) == Sextets(bytes)

RECURSIVE B64Decode(_)
\* base64.b64decode(data['content'])
B64Decode(s) ==
    IF s = << >> THEN << >>
    ELSE LET b1 == s[1] * 4 + s[2] \div 16
             b2 == (s[2] % 16) * 16 + s[3] \div 4
             b3 == (s[3] % 4) * 64 + s[4]
         IN  (IF s[3] = 64 THEN <<b1>>
              ELSE IF s[4] = 64 THEN <<b1, b2>>
              ELSE <<b1, b2, b3>>) \o B64Decode(SubSeq(s, 5, Len(s)))

\* repo.git.show(f"{sha}:{file_path}") returns: git is in order and the file
\* is recorded at the revision
LocalShow ==
    /\ source = "local"
    /\ gpc = "start"
    /\ fault.git = "ok"
    /\ RecordedAt(sha)
    /\ fetched' = recorded[sha]
    /\ gpc' = "done"
    /\ UNCHANGED <<source, sha, recorded, worktree, fault>>
    /\ UNCHANGED <<pvars, hvars, dvars, cvars, vvars, svars, avars, nvars>>

\* git.Repo or git show raises; except: the file of the working tree is read,
\* and None is returned when that raises too
LocalFallback ==
    /\ source = "local"
    /\ gpc = "start"
    /\ ~(fault.git = "ok" /\ RecordedAt(sha))
    /\ fetched' = worktree
    /\ gpc' = "done"
    /\ UNCHANGED <<source, sha, recorded, worktree, fault>>
    /\ UNCHANGED <<pvars, hvars, dvars, cvars, vvars, svars, avars, nvars>>

\* if not LIBRARIES.get('requests'): return None
RemoteNoLibrary ==
    /\ source = "remote"
    /\ gpc = "start"
    /\ ~fault.requests
    /\ fetched' = Absent
    /\ gpc' = "done"
    /\ UNCHANGED <<source, sha, recorded, worktree, fault>>
    /\ UNCHANGED <<pvars, hvars, dvars, cvars, vvars, svars, avars, nvars>>

\* the request of the raw file: status 200 and the text, an exception (None
\* is returned), or another status
RemoteRaw ==
    /\ source = "remote"
    /\ gpc = "start"
    /\ fault.requests
    /\ IF fault.raw = "raises"
       THEN fetched' = Absent /\ gpc' = "done"
       ELSE IF fault.raw = "ok" /\ RecordedAt(sha)
            THEN fetched' = recorded[sha] /\ gpc' = "done"
            ELSE fetched' = fetched /\ gpc' = "api"
    /\ UNCHANGED <<source, sha, recorded, worktree, fault>>
    /\ UNCHANGED <<pvars, hvars, dvars, cvars, vvars, svars, avars, nvars>>

\* the request of the contents API: status 200 and a 'content' key decoded,
\* or None
RemoteApi ==
    /\ source = "remote"
    /\ gpc = "api"
    /\ fetched' = IF fault.api = "ok" /\ RecordedAt(sha)
                  THEN B64Decode(B64Encode(recorded[sha]))
                  ELSE Absent
    /\ gpc' = "done"
    /\ UNCHANGED <<source, sha, recorded, worktree, fault>>
    /\ UNCHANGED <<pvars, hvars, dvars, cvars, vvars, svars, avars, nvars>>

ContentInit ==
    /\ source \in Sources
    /\ sha \in Hashes
    /\ recorded \in [Revisions -> FileTexts \cup {Absent}]
    /\ worktree \in FileTexts \cup {Absent}
    /\ fault \in Faults
    /\ gpc = "start"
    /\ fetched = Absent
    /\ ParseIdle
    /\ HierIdle
    /\ DiffIdle
    /\ CompareIdle
    /\ ViewerIdle
    /\ StatsIdle
    /\ NothingDrawn
    /\ NewIdle

ContentNext ==
    \/ LocalShow
    \/ LocalFallback
    \/ RemoteNoLibrary
    \/ RemoteRaw
    \/ RemoteApi

SpecContent == ContentInit /\ [][ContentNext]_vars

----------------------------------------------------------------------------
(* URDF3DViewer.parse_urdf: the body of the link loop, which builds the     *)
(* entry of one link from its content                                       *)

\* the most blocks of a link
MaxBlocks == 2

Raised == [raised |-> "ValueError"]

\* parse_geometry(fragment) as a value: the dict returned, or Raised
ParseGeometry(which, frag) ==
    LET b == BoxMatch(which, frag)
        c == CylinderMatch(which, frag)
        s == SphereMatch(which, frag)
        sizes == Floats(frag[b].attrs[1].v)
        cradius == Float(frag[c].attrs[1].v)
        clength == Float(frag[c].attrs[2].v)
        sradius == Float(frag[s].attrs[1].v)
    IN  IF b # 0 /\ ~sizes.ok THEN Raised
        ELSE IF b # 0 /\ EnoughSizes(sizes.v)
        THEN [type |-> "box", size |-> FirstThree(sizes.v)]
        ELSE IF c # 0
        THEN (IF cradius.ok /\ clength.ok
              THEN [type |-> "cylinder", radius |-> cradius.v, length |-> clength.v]
              ELSE Raised)
        ELSE IF s # 0
        THEN (IF sradius.ok THEN [type |-> "sphere", radius |-> sradius.v] ELSE Raised)
        ELSE DefaultBox

\* parse_origin(fragment) as a value
ParseOrigin(which, frag) ==
    LET o == OriginMatch(which, frag)
        tag == frag[o]
        xyz == Floats(tag.attrs[1].v)
        rpy == IF HasRpy(tag) THEN Floats(tag.attrs[2].v) ELSE [ok |-> TRUE, v |-> ZeroVector]
    IN  IF o = 0 THEN DefaultOrigin
        ELSE IF ~xyz.ok \/ ~rpy.ok THEN Raised
        ELSE [xyz |-> FirstThree(IF Len(xyz.v) < 3 THEN ZeroVector ELSE xyz.v),
              rpy |-> FirstThree(IF HasRpy(tag) THEN ShortRpy(which, rpy.v) ELSE ZeroVector)]

\* lower case of the name of a visual tag
LowerVisual(k) ==
    CASE k = "VISUAL" -> "visual"
      [] k = "/VISUAL" -> "/visual"
      [] OTHER -> k

\* <visual>(.*?)</visual> with re.DOTALL | re.IGNORECASE: the first <visual>
\* without attributes and the first </visual> after it; <<0, 0>> when none
VisualMatch(frag) ==
    LET Opens(i) == LowerVisual(frag[i].k) = "visual" /\ frag[i].attrs = << >>
        Closes(i) == LowerVisual(frag[i].k) = "/visual"
        Pairs == {p \in (1..Len(frag)) \X (1..Len(frag)) :
                     Opens(p[1]) /\ Closes(p[2]) /\ p[1] < p[2]}
    IN  IF Pairs = {} THEN <<0, 0>>
        ELSE CHOOSE p \in Pairs : \A q \in Pairs :
                 p[1] < q[1] \/ (p[1] = q[1] /\ p[2] <= q[2])

\* visual_match.group(1)
VisualContent(frag) ==
    LET m == VisualMatch(frag) IN SubSeq(frag, m[1] + 1, m[2] - 1)

\* embedded script: visual_match is searched and the defaults are set
LinkVisual ==
    /\ lviewer = "embedded"
    /\ lpc = "start"
    /\ geometry' = DefaultBox
    /\ origin' = DefaultOrigin
    /\ lpc' = IF VisualMatch(link_content)[1] # 0 THEN "visual origin" ELSE "append"
    /\ UNCHANGED <<lviewer, lname, link_content, entry>>
    /\ UNCHANGED restL

\* if visual_origin['xyz'] != [0.0, 0.0, 0.0]
KeepsOrigin(visual_origin) == visual_origin.xyz # ZeroVector

\* embedded script: visual_origin = self.parse_origin(visual_content)
LinkVisualOrigin ==
    /\ lviewer = "embedded"
    /\ lpc = "visual origin"
    /\ LET visual_origin == ParseOrigin(lviewer, VisualContent(link_content))
       IN  IF visual_origin = Raised
           THEN lpc' = "raised" /\ UNCHANGED origin
           ELSE /\ origin' = IF KeepsOrigin(visual_origin) THEN visual_origin ELSE origin
                /\ lpc' = "visual geometry"
    /\ UNCHANGED <<lviewer, lname, link_content, geometry, entry>>
    /\ UNCHANGED restL

\* if visual_geometry['type'] != 'box' or visual_geometry['size'] != [0.1, 0.1, 0.1]
KeepsGeometry(visual_geometry) ==
    visual_geometry.type # "box" \/ visual_geometry.size # <<Tenth, Tenth, Tenth>>

\* embedded script: visual_geometry = self.parse_geometry(visual_content)
LinkVisualGeometry ==
    /\ lviewer = "embedded"
    /\ lpc = "visual geometry"
    /\ LET visual_geometry == ParseGeometry(lviewer, VisualContent(link_content))
       IN  IF visual_geometry = Raised
           THEN lpc' = "raised" /\ UNCHANGED geometry
           ELSE /\ geometry' = IF KeepsGeometry(visual_geometry) THEN visual_geometry
                               ELSE geometry
                /\ lpc' = "append"
    /\ UNCHANGED <<lviewer, lname, link_content, origin, entry>>
    /\ UNCHANGED restL

\* urdf-3d-viewer.py: geometry = self.parse_geometry(link_content)
LinkGeometry ==
    /\ lviewer = "standalone"
    /\ lpc = "start"
    /\ LET g == ParseGeometry(lviewer, link_content)
       IN  IF g = Raised
           THEN lpc' = "raised" /\ UNCHANGED geometry
           ELSE geometry' = g /\ lpc' = "origin"
    /\ UNCHANGED <<lviewer, lname, link_content, origin, entry>>
    /\ UNCHANGED restL

\* urdf-3d-viewer.py: origin = self.parse_origin(link_content)
LinkOrigin ==
    /\ lviewer = "standalone"
    /\ lpc = "origin"
    /\ LET o == ParseOrigin(lviewer, link_content)
       IN  IF o = Raised
           THEN lpc' = "raised" /\ UNCHANGED origin
           ELSE origin' = o /\ lpc' = "append"
    /\ UNCHANGED <<lviewer, lname, link_content, geometry, entry>>
    /\ UNCHANGED restL

\* self.links.append({...})
LinkAppend ==
    /\ lpc = "append"
    /\ entry' = [name |-> lname,
                 geometry |-> geometry,
                 origin |-> origin,
                 type |-> IF lviewer = "embedded" THEN GetLinkTypeEmbedded(lname)
                          ELSE GetLinkTypeStandalone(lname)]
    /\ lpc' = "done"
    /\ UNCHANGED <<lviewer, lname, link_content, geometry, origin>>
    /\ UNCHANGED restL

Ones3 == <<"1", " ", "1", " ", "1">>

Zeros3 == <<"0", " ", "0", " ", "0">>

Tenths3 == <<"0", ".", "1", " ", "0", ".", "1", " ", "0", ".", "1">>

\* what a block holds of origin tags
BlockOrigins ==
    { << >>,
      <<Tag("origin", <<Attr("xyz", Ones3)>>)>>,
      <<Tag("origin", <<Attr("xyz", Zeros3), Attr("rpy", Ones3)>>)>>,
      <<Tag("origin", <<Attr("xyz", Ones3), Attr("rpy", Ones3)>>)>> }

\* what a block holds of shape tags
BlockShapes ==
    { << >>,
      <<Tag("box", <<Attr("size", Tenths3)>>)>>,
      <<Tag("box", <<Attr("size", Ones3)>>)>>,
      <<Tag("sphere", <<Attr("radius", One)>>)>>,
      <<Tag("sphere", <<Attr("radius", <<".">>)>>)>> }

\* the opening tags of blocks: <visual>, <VISUAL>, <visual name="v">,
\* <collision>
BlockOpenings ==
    { Tag("visual", << >>), Tag("VISUAL", << >>), Tag("visual", <<Attr("name", <<"v">>)>>),
      Tag("collision", << >>) }

Closing(open) ==
    CASE open.k = "visual" -> Tag("/visual", << >>)
      [] open.k = "VISUAL" -> Tag("/VISUAL", << >>)
      [] open.k = "collision" -> Tag("/collision", << >>)

Blocks == {<<open>> \o o \o g \o <<Closing(open)>> :
              open \in BlockOpenings, o \in BlockOrigins, g \in BlockShapes}

\* the link contents of up to n blocks
LinkContents(n) == {Concat(bs) : bs \in SeqsUpTo(Blocks, n)}

LinkInit ==
    /\ lviewer \in {"embedded", "standalone"}
    /\ lname \in {<<"base">>, <<"_">>}
    /\ link_content \in LinkContents(MaxBlocks)
    /\ lpc = "start"
    /\ geometry = EmptyDict
    /\ origin = EmptyDict
    /\ entry = EmptyDict
    /\ ParseIdle
    /\ HierIdle
    /\ DiffIdle
    /\ CompareIdle
    /\ ViewerIdle
    /\ StatsIdle
    /\ ContentIdle
    /\ NothingDrawn
    /\ HtmlIdle
    /\ SessionIdle
    /\ LauncherIdle
    /\ CameraIdle

LinkNext ==
    \/ LinkVisual
    \/ LinkVisualOrigin
    \/ LinkVisualGeometry
    \/ LinkGeometry
    \/ LinkOrigin
    \/ LinkAppend

SpecLink == LinkInit /\ [][LinkNext]_vars

----------------------------------------------------------------------------
(* create_diff_html *)

\* def create_diff_html(diff_lines, max_lines=200)
MaxLinesShown == 200

\* the longest diff given to create_diff_html
MaxDiffLines == 202

\* the longest of the short diffs given to create_diff_html
MaxFew == 2

\* the if/elif chain of line.startswith: the tag of a diff line holds its
\* leading characters
LineStyle(line) ==
    IF line.tag \in {"---", "+++"} THEN "file"
    ELSE IF line.tag = "@@" THEN "hunk"
    ELSE IF line.tag = "+" THEN "added"
    ELSE IF line.tag = "-" THEN "removed"
    ELSE "context"

\* the <div> of the ellipsis
EllipsisDiv == [style |-> "ellipsis", text |-> [tag |-> "...", line |-> << >>]]

\* if line_count >= max_lines (the comparison read the other way round)
Exhausted_Late(count) == count > MaxLinesShown

\* if line_count >= max_lines
Exhausted(count) == count >= MaxLinesShown

\* if not diff_lines: return the <div> that says there is no change
HtmlEmpty ==
    /\ tpc = "start"
    /\ diff_lines = << >>
    /\ diff_html' = [kind |-> "empty", elements |-> << >>]
    /\ tpc' = "done"
    /\ UNCHANGED <<diff_lines, html_lines, line_count, ti, restT>>

\* html_lines = []; line_count = 0; for line in diff_lines
HtmlStart ==
    /\ tpc = "start"
    /\ diff_lines # << >>
    /\ html_lines' = << >>
    /\ line_count' = 0
    /\ ti' = 1
    /\ tpc' = "loop"
    /\ UNCHANGED <<diff_lines, diff_html, restT>>

\* the limit is reached with a line left: the ellipsis, and break
HtmlEllipsis ==
    /\ tpc = "loop"
    /\ ti <= Len(diff_lines)
    /\ Exhausted(line_count)
    /\ html_lines' = Append(html_lines, EllipsisDiv)
    /\ tpc' = "break"
    /\ UNCHANGED <<diff_lines, line_count, diff_html, ti, restT>>

\* one <div> for the line, styled by its leading characters; line_count += 1
HtmlLine ==
    /\ tpc = "loop"
    /\ ti <= Len(diff_lines)
    /\ ~Exhausted(line_count)
    /\ html_lines' = Append(html_lines, [style |-> LineStyle(diff_lines[ti]),
                                         text |-> diff_lines[ti]])
    /\ line_count' = line_count + 1
    /\ ti' = ti + 1
    /\ UNCHANGED <<diff_lines, tpc, diff_html, restT>>

\* return the outer <div> around ''.join(html_lines)
HtmlReturn ==
    /\ tpc = "break" \/ (tpc = "loop" /\ ti > Len(diff_lines))
    /\ diff_html' = [kind |-> "box", elements |-> html_lines]
    /\ tpc' = "done"
    /\ UNCHANGED <<diff_lines, html_lines, line_count, ti, restT>>

\* the lines a unified diff is made of
DiffLineKinds ==
    {[tag |-> t, line |-> <<"x">>] : t \in {"---", "+++", "@@", "+", "-", " "}}

FewLines == SeqsUpTo(DiffLineKinds, MaxFew)

\* a long diff: two file lines, a hunk line, then removed, added and context
\* lines, neighbours different and every third one alike
ManyLines(n) ==
    [i \in 1..n |->
        IF i = 1 THEN [tag |-> "---", line |-> <<"a">>]
        ELSE IF i = 2 THEN [tag |-> "+++", line |-> <<"b">>]
        ELSE IF i = 3 THEN [tag |-> "@@", line |-> <<"1", "1">>]
        ELSE IF i % 3 = 0 THEN [tag |-> "-", line |-> <<"x">>]
        ELSE IF i % 3 = 1 THEN [tag |-> "+", line |-> <<"y">>]
        ELSE [tag |-> " ", line |-> <<"z">>]]

DiffLists == FewLines \cup {ManyLines(n) : n \in (MaxLinesShown - 1)..MaxDiffLines}

HtmlInit ==
    /\ diff_lines \in DiffLists
    /\ tpc = "start"
    /\ html_lines = << >>
    /\ line_count = 0
    /\ diff_html = EmptyDict
    /\ ti = 0
    /\ ParseIdle
    /\ HierIdle
    /\ DiffIdle
    /\ CompareIdle
    /\ ViewerIdle
    /\ StatsIdle
    /\ ContentIdle
    /\ NothingDrawn
    /\ LinkIdle
    /\ SessionIdle
    /\ LauncherIdle
    /\ CameraIdle

HtmlNext ==
    \/ HtmlEmpty
    \/ HtmlStart
    \/ HtmlEllipsis
    \/ HtmlLine
    \/ HtmlReturn

SpecHtml == HtmlInit /\ [][HtmlNext]_vars

----------------------------------------------------------------------------
(* The session of main.  Every action is one run of the script with one     *)
(* button clicked; st.session_state is the dict `session`.  The places that *)
(* can be searched, the files found there, the commits of each file and the *)
(* text of a file at a commit are fixed; a fetch can also fail.             *)

\* repository paths (local) or owner/repo pairs (GitHub)
Places == {"p", "q"}

\* find_local_files / search_github_files: nothing is found at "nowhere"
FoundAt(place) ==
    IF place = "p" THEN <<"a", "b">> ELSE IF place = "q" THEN <<"c">> ELSE << >>

Commit(name, date) == [sha |-> name, date |-> date]

\* get_local_commits / get_github_commits: file a has three commits, the
\* oldest one of an empty file; file b shares the commit s3 and has another
\* of the same date; file c is listed oldest first
CommitsOf(place, file) ==
    IF place = "p" /\ file = "a"
    THEN <<Commit("s3", 3), Commit("s2", 2), Commit("s1", 1)>>
    ELSE IF place = "p" /\ file = "b" THEN <<Commit("s3", 3), Commit("s0", 3)>>
    ELSE IF place = "q" /\ file = "c" THEN <<Commit("t1", 1), Commit("t2", 2)>>
    ELSE << >>

\* the text of the file at the commit: one line naming place, file and
\* commit; None when the commit is none of the file at that place
FileAt(place, file, name) ==
    IF \E i \in 1..Len(CommitsOf(place, file)) : CommitsOf(place, file)[i].sha = name
    THEN IF name = "s1" THEN << >> ELSE << <<place, file, name>> >>
    ELSE None

\* get_file_content_for_commit: the text, or None when the provider fails
FetchContent(place, file, name, fails) ==
    IF fails THEN None ELSE FileAt(place, file, name)

\* del st.session_state[key]
DelKey(d, key) == [x \in DOMAIN d \ {key} |-> d[x]]

\* key in st.session_state and st.session_state[key]
IsSet(key) == key \in DOMAIN session /\ session[key] = TRUE

\* repo_info: repo_path if source == "local" else the (owner, repo) pair
RepoInfo ==
    IF session.source = "local" THEN session.repo_path ELSE session.repo_info

\* "Найти файлы" of either source: the files are stored when some are found
FindFiles ==
    /\ \E chosen \in {"local", "github"}, place \in Places \cup {"nowhere"} :
         LET files == FoundAt(place)
         IN  IF files # << >>
             THEN session' = SetKey(SetKey(SetKey(session, "files", files),
                                           IF chosen = "local" THEN "repo_path" ELSE "repo_info",
                                           place),
                                    "source", chosen)
             ELSE UNCHANGED session
    /\ request' = [kind |-> "find"]
    /\ UNCHANGED <<vizFrom, cmpFrom, restU>>

\* "Очистить": if 'files' in st.session_state: del st.session_state.files
Clear ==
    /\ session' = IF "files" \in DOMAIN session THEN DelKey(session, "files") ELSE session
    /\ request' = [kind |-> "clear"]
    /\ UNCHANGED <<vizFrom, cmpFrom, restU>>

\* "Загрузить историю коммитов": the file and its commits are stored when
\* the list is not empty
LoadHistory ==
    /\ "files" \in DOMAIN session
    /\ session.files # << >>
    /\ \E selected_file \in Range(session.files), fails \in BOOLEAN :
         LET commits == IF fails THEN << >> ELSE CommitsOf(RepoInfo, selected_file)
         IN  IF commits # << >>
             THEN session' = SetKey(SetKey(session, "selected_file", selected_file),
                                    "commits", commits)
             ELSE UNCHANGED session
    /\ request' = [kind |-> "load"]
    /\ UNCHANGED <<vizFrom, cmpFrom, restU>>

\* "Визуализировать структуру": commit, content and show_viz are stored
\* when the content is there
Visualise ==
    /\ "commits" \in DOMAIN session
    /\ \E viz_commit_idx \in 1..Len(session.commits), fails \in BOOLEAN :
         LET selected_commit == session.commits[viz_commit_idx]
             got == FetchContent(RepoInfo, session.selected_file,
                                 selected_commit.sha, fails)
         IN  IF ~Falsy(got)
             THEN /\ session' = SetKey(SetKey(SetKey(session, "viz_commit", selected_commit),
                                              "viz_content", got),
                                       "show_viz", TRUE)
                  /\ vizFrom' = [place |-> RepoInfo, file |-> session.selected_file,
                                 commits |-> session.commits]
             ELSE UNCHANGED <<session, vizFrom>>
    /\ request' = [kind |-> "visualise"]
    /\ UNCHANGED <<cmpFrom, restU>>

\* the two commits are never exchanged
NeedsSwap_Never(old_commit, new_commit) == FALSE

\* if old_commit['date'] > new_commit['date']
NeedsSwap(old_commit, new_commit) == old_commit.date > new_commit.date

\* "Сравнить коммиты": with two different indexes the commits are put in
\* date order and both contents fetched; commits, contents and
\* show_comparison are stored when both contents are there
Compare ==
    /\ "commits" \in DOMAIN session
    /\ \E old_commit_idx, new_commit_idx \in 1..Len(session.commits),
          old_fails, new_fails \in BOOLEAN :
         LET first == session.commits[old_commit_idx]
             second == session.commits[new_commit_idx]
             swap == NeedsSwap(first, second)
             old_commit == IF swap THEN second ELSE first
             new_commit == IF swap THEN first ELSE second
             old_got == FetchContent(RepoInfo, session.selected_file,
                                     old_commit.sha, old_fails)
             new_got == FetchContent(RepoInfo, session.selected_file,
                                     new_commit.sha, new_fails)
         IN  IF old_commit_idx # new_commit_idx
             THEN /\ request' = [kind |-> "compare", old_idx |-> old_commit_idx,
                                 new_idx |-> new_commit_idx, old_got |-> old_got,
                                 new_got |-> new_got, before |-> session]
                  /\ IF ~Falsy(old_got) /\ ~Falsy(new_got)
                     THEN /\ session' =
                               SetKey(SetKey(SetKey(SetKey(SetKey(session,
                                   "old_commit", old_commit), "new_commit", new_commit),
                                   "old_content", old_got), "new_content", new_got),
                                   "show_comparison", TRUE)
                          /\ cmpFrom' = [place |-> RepoInfo, file |-> session.selected_file,
                                         commits |-> session.commits,
                                         old_idx |-> old_commit_idx,
                                         new_idx |-> new_commit_idx]
                     ELSE UNCHANGED <<session, cmpFrom>>
             ELSE /\ request' = [kind |-> "compare", old_idx |-> old_commit_idx,
                                 new_idx |-> new_commit_idx, old_got |-> None,
                                 new_got |-> None, before |-> session]
                  /\ UNCHANGED <<session, cmpFrom>>
    /\ UNCHANGED <<vizFrom, restU>>

SessionInit ==
    /\ session = EmptyDict
    /\ request = [kind |-> "none"]
    /\ vizFrom = EmptyDict
    /\ cmpFrom = EmptyDict
    /\ ParseIdle
    /\ HierIdle
    /\ DiffIdle
    /\ CompareIdle
    /\ ViewerIdle
    /\ StatsIdle
    /\ ContentIdle
    /\ NothingDrawn
    /\ LinkIdle
    /\ HtmlIdle
    /\ LauncherIdle
    /\ CameraIdle

SessionNext ==
    \/ FindFiles
    \/ Clear
    \/ LoadHistory
    \/ Visualise
    \/ Compare

SpecSession == SessionInit /\ [][SessionNext]_vars

----------------------------------------------------------------------------
(* The launcher run.py *)

\* the packages of the list dependencies of check_dependencies
Dependencies == <<"streamlit", "gitpython", "requests", "plotly", "numpy",
                  "networkx", "matplotlib", "PyOpenGL">>

\* what one pip run can do: end with exit code 0, end with another exit
\* code, or raise out of subprocess.run
PipOutcomes == {[returncode |-> 0, raised |-> FALSE],
                [returncode |-> 1, raised |-> FALSE],
                [returncode |-> 0, raised |-> TRUE]}

\* only an exception ends the installation
InstallFailed_OnlyRaised(result) == result.raised

\* the except branch, or result.returncode != 0
InstallFailed(result) == result.raised \/ result.returncode # 0

\* if not check_python_version(): return
CheckVersion ==
    /\ rpc = "start"
    /\ rpc' = IF version_ok THEN "deps" ELSE "returned"
    /\ UNCHANGED <<version_ok, absent, missing, mi, attempts, started, restR>>

\* missing, installed = check_dependencies(); if missing: install them,
\* else go on to the port
CheckDependencies ==
    /\ rpc = "deps"
    /\ missing' = SelectSeq(Dependencies, LAMBDA package : package \in absent)
    /\ mi' = 1
    /\ rpc' = IF missing' # << >> THEN "install" ELSE "port"
    /\ UNCHANGED <<version_ok, absent, attempts, started, restR>>

\* one iteration of: for package, description in missing; on a failure
\* install_dependencies returns False and main returns
InstallPackage ==
    /\ rpc = "install"
    /\ mi <= Len(missing)
    /\ \E result \in PipOutcomes :
         /\ attempts' = Append(attempts, [package |-> missing[mi], result |-> result])
         /\ IF InstallFailed(result)
            THEN rpc' = "returned" /\ UNCHANGED mi
            ELSE mi' = mi + 1 /\ UNCHANGED rpc
    /\ UNCHANGED <<version_ok, absent, missing, started, restR>>

\* the loop is exhausted: return True
InstallDone ==
    /\ rpc = "install"
    /\ mi > Len(missing)
    /\ rpc' = "port"
    /\ UNCHANGED <<version_ok, absent, missing, mi, attempts, started, restR>>

\* port = find_free_port(); start_application(port)
StartApplication ==
    /\ rpc = "port"
    /\ started' = TRUE
    /\ rpc' = "started"
    /\ UNCHANGED <<version_ok, absent, missing, mi, attempts, restR>>

LauncherInit ==
    /\ rpc = "start"
    /\ version_ok \in BOOLEAN
    /\ absent \in SUBSET Range(Dependencies)
    /\ missing = << >>
    /\ mi = 0
    /\ attempts = << >>
    /\ started = FALSE
    /\ ParseIdle
    /\ HierIdle
    /\ DiffIdle
    /\ CompareIdle
    /\ ViewerIdle
    /\ StatsIdle
    /\ ContentIdle
    /\ NothingDrawn
    /\ LinkIdle
    /\ HtmlIdle
    /\ SessionIdle
    /\ CameraIdle

LauncherNext ==
    \/ CheckVersion
    \/ CheckDependencies
    \/ InstallPackage
    \/ InstallDone
    \/ StartApplication

SpecLauncher == LauncherInit /\ [][LauncherNext]_vars

----------------------------------------------------------------------------
(* The camera of URDF3DViewer: keyboard, mouse and motion.  Distances and   *)
(* angles are held in tenths, so that 0.5 and half a pixel are integers.    *)

\* the float whole.tenth, in tenths
Dec(whole, tenth) == whole * 10 + tenth

\* the largest camera distance an event is taken at
MaxDistance == 55

\* how far camera_angle_x is turned away from 45.0, at most
MaxTurn == 100

\* the largest camera_angle_y, either way, an event is taken at
MaxPitch == 950

\* the keys keyboard has a branch for
Keys == {"q", "+", "-", "r", "w", "s", "a", "d"}

\* the pixel coordinates the pointer is seen at
Pixels == {0, 20}

\* camera_distance - 0.5, the lower limit left out
ZoomIn_Unclamped(distance) == distance - Dec(0, 5)

\* max(1.0, self.camera_distance - 0.5)
ZoomIn(distance) == Max(Dec(1, 0), distance - Dec(0, 5))

\* max(-89.0, min(89.0, self.camera_angle_y)) in motion of the embedded
\* script; the motion of urdf-3d-viewer.py has no such line
ClampPitch(which, angle) ==
    IF which = "embedded" THEN Max(0 - Dec(89, 0), Min(Dec(89, 0), angle)) ELSE angle

\* 'w' adds 5.0 to camera_angle_y in the embedded script and takes 5.0 off
\* in urdf-3d-viewer.py; 's' does the opposite
PitchStep(which, key) ==
    IF (which = "embedded") = (key = "w") THEN Dec(5, 0) ELSE 0 - Dec(5, 0)

\* the camera stays within the distances and angles of the model
InView(distance, angle_x, angle_y) ==
    /\ distance <= MaxDistance
    /\ angle_x >= Dec(45, 0) - MaxTurn /\ angle_x <= Dec(45, 0) + MaxTurn
    /\ angle_y >= 0 - MaxPitch /\ angle_y <= MaxPitch

\* keyboard(key, x, y)
Keyboard ==
    /\ running
    /\ \E key \in Keys :
         /\ last_event' = key
         /\ running' = (key # "q")
         /\ camera_distance' =
                IF key = "+" THEN ZoomIn(camera_distance)
                ELSE IF key = "-" THEN camera_distance + Dec(0, 5)
                ELSE IF key = "r" THEN Dec(5, 0)
                ELSE camera_distance
         /\ camera_angle_x' =
                IF key = "r" THEN Dec(45, 0)
                ELSE IF key = "a" THEN camera_angle_x - Dec(5, 0)
                ELSE IF key = "d" THEN camera_angle_x + Dec(5, 0)
                ELSE camera_angle_x
         /\ camera_angle_y' =
                IF key = "r" THEN Dec(30, 0)
                ELSE IF key \in {"w", "s"} THEN camera_angle_y + PitchStep(kviewer, key)
                ELSE camera_angle_y
    /\ InView(camera_distance', camera_angle_x', camera_angle_y')
    /\ UNCHANGED <<kviewer, mouse_down, last_x, last_y, restK>>

\* mouse(button, state, x, y)
Mouse ==
    /\ running
    /\ \E button \in {"left", "right"}, state \in {"down", "up"}, x \in Pixels, y \in Pixels :
         /\ last_event' = "mouse"
         /\ IF button = "left"
            THEN IF state = "down"
                 THEN mouse_down' = TRUE /\ last_x' = x /\ last_y' = y
                 ELSE mouse_down' = FALSE /\ UNCHANGED <<last_x, last_y>>
            ELSE UNCHANGED <<mouse_down, last_x, last_y>>
    /\ UNCHANGED <<kviewer, running, camera_distance, camera_angle_x, camera_angle_y, restK>>

\* motion(x, y)
Motion ==
    /\ running
    /\ \E x \in Pixels, y \in Pixels :
         /\ last_event' = "motion"
         /\ IF mouse_down
            THEN LET dx == x - last_x
                     dy == y - last_y
                 IN  /\ last_x' = x
                     /\ last_y' = y
                     /\ camera_angle_x' = camera_angle_x + dx * Dec(0, 5)
                     /\ camera_angle_y' = ClampPitch(kviewer, camera_angle_y + dy * Dec(0, 5))
            ELSE UNCHANGED <<last_x, last_y, camera_angle_x, camera_angle_y>>
    /\ InView(camera_distance, camera_angle_x', camera_angle_y')
    /\ UNCHANGED <<kviewer, running, camera_distance, mouse_down, restK>>

CameraInit ==
    /\ kviewer \in {"embedded", "standalone"}
    /\ running = TRUE
    /\ camera_distance = Dec(5, 0)
    /\ camera_angle_x = Dec(45, 0)
    /\ camera_angle_y = Dec(30, 0)
    /\ mouse_down = FALSE
    /\ last_x = 0
    /\ last_y = 0
    /\ last_event = "none"
    /\ ParseIdle
    /\ HierIdle
    /\ DiffIdle
    /\ CompareIdle
    /\ ViewerIdle
    /\ StatsIdle
    /\ ContentIdle
    /\ NothingDrawn
    /\ LinkIdle
    /\ HtmlIdle
    /\ SessionIdle
    /\ LauncherIdle

CameraNext ==
    \/ Keyboard
    \/ Mouse
    \/ Motion

SpecCamera == CameraInit /\ [][CameraNext]_vars

----------------------------------------------------------------------------
(* What a document declares, read off the declarations themselves *)

RECURSIVE DeclaredLinksFrom(_, _)
DeclaredLinksFrom(d, i) ==
    IF i > Len(d) THEN << >>
    ELSE IF d[i].kind = "link" THEN <<d[i].name>> \o DeclaredLinksFrom(d, i + 1)
    ELSE DeclaredLinksFrom(d, i + 1)

\* the names of the declared links, in document order
DeclaredLinks(d) == DeclaredLinksFrom(d, 1)

IsJointAt(d, i) == d[i].kind = "joint"

\* a joint declaration with both its parent and its child sub-tag
IsCompleteAt(d, i) == IsJointAt(d, i) /\ d[i].form \in {"pc", "cp"}

RECURSIVE DeclaredJointsFrom(_, _)
DeclaredJointsFrom(d, i) ==
    IF i > Len(d) THEN << >>
    ELSE IF IsCompleteAt(d, i)
         THEN << [name |-> i, parent |-> d[i].parent, child |-> d[i].child] >>
              \o DeclaredJointsFrom(d, i + 1)
    ELSE DeclaredJointsFrom(d, i + 1)

\* the complete joint declarations, in document order
DeclaredJoints(d) == DeclaredJointsFrom(d, 1)

DeclaredNameSet(d) == {d[i].name : i \in {h \in 1..Len(d) : d[h].kind = "link"}}

\* every joint has both sub-tags and they reference declared links
AllJointsResolved(d) ==
    \A i \in 1..Len(d) :
        IsJointAt(d, i) =>
            /\ IsCompleteAt(d, i)
            /\ d[i].parent \in DeclaredNameSet(d)
            /\ d[i].child \in DeclaredNameSet(d)

\* the parsed joints agree with the declared ones on every key the parser records
SameJoints(js, ds) ==
    /\ Len(js) = Len(ds)
    /\ \A i \in 1..Len(js) :
        /\ js[i].parent = ds[i].parent
        /\ js[i].child = ds[i].child
        /\ "name" \in DOMAIN js[i] => js[i].name = ds[i].name

----------------------------------------------------------------------------
(* Claims on the parsers *)

\* C1: a document with N link declarations and M joint declarations whose
\* parent and child reference declared links parses to exactly N Links and M
\* Joints in document order, every joint with its own name, parent and child,
\* for every parser, paired or self-closing links, either sub-tag order.
C1_ParseCounts ==
    (ppc = "done" /\ AllJointsResolved(doc)) =>
        /\ links = DeclaredLinks(doc)
        /\ Len(joints) = Len(DeclaredJoints(doc))
        /\ \A i \in 1..Len(joints) :
            /\ "name" \in DOMAIN joints[i]
            /\ joints[i] = DeclaredJoints(doc)[i]

\* some joint declaration lacks a sub-tag, and every complete one is written
\* parent first
HasIncompleteJoint(d) ==
    /\ \E i \in 1..Len(d) : IsJointAt(d, i) /\ ~IsCompleteAt(d, i)
    /\ \A i \in 1..Len(d) : IsJointAt(d, i) => d[i].form # "cp"

\* C2: a joint declaration lacking its parent or its child sub-tag contributes
\* no Joint; every other joint is still parsed, its name paired with its own
\* parent and child.
C2_IncompleteJointDropped ==
    (ppc = "done" /\ parser \in {"structure", "standalone"} /\ HasIncompleteJoint(doc)) =>
        SameJoints(joints, DeclaredJoints(doc))

----------------------------------------------------------------------------
(* Claims on the hierarchy builder *)

IsChild(js, n) == \E i \in 1..Len(js) : js[i].child = n

\* C3: the root set is exactly the declared links that are the child of no
\* joint, in declaration order; when there is none and a link is declared,
\* it is exactly the first declared link.
C3_Roots ==
    (hpc \in {"roots", "done"} /\ hlinks # << >>) =>
        IF \E i \in 1..Len(hlinks) : ~IsChild(hjoints, hlinks[i])
        THEN root_nodes = SelectSeq(hlinks, LAMBDA l : ~IsChild(hjoints, l))
        ELSE root_nodes = <<hlinks[1]>>

\* the fallback of C3 happened on a document of several links
C3_Witness ==
    /\ hpc = "done"
    /\ Len(hlinks) >= 2
    /\ \A i \in 1..Len(hlinks) : IsChild(hjoints, hlinks[i])
    /\ root_nodes = <<hlinks[1]>>

\* no cycle, no link the child of two joints (hence no duplicate joint)
IsForest(ls, js) ==
    /\ \A i \in 1..Len(js) : js[i].parent \notin ReachFrom(js, {js[i].child})
    /\ \A i, k \in 1..Len(js) : js[i].child = js[k].child => i = k

\* the roots a hierarchy is built from, as a set
RootSet(ls, js) ==
    IF \E i \in 1..Len(ls) : ~IsChild(js, ls[i])
    THEN {ls[i] : i \in {h \in 1..Len(ls) : ~IsChild(js, ls[h])}}
    ELSE {ls[1]}

ChildrenOf(js, S) == {js[i].child : i \in {h \in 1..Len(js) : js[h].parent \in S}}

RECURSIVE LevelFrom(_, _, _)
LevelFrom(js, S, k) == IF k = 0 THEN S ELSE LevelFrom(js, ChildrenOf(js, S), k - 1)

\* the nodes at k joints from the roots
Level(ls, js, k) == LevelFrom(js, RootSet(ls, js), k)

\* C4: on a forest of height at most 10 every link reachable from a root has
\* a depth equal to the number of joints on the path from its root.
C4_ForestDepth ==
    (/\ hpc = "done"
     /\ hlinks # << >>
     /\ IsForest(hlinks, hjoints)
     /\ Level(hlinks, hjoints, DepthLimit + 1) = {}) =>
        \A k \in 0..DepthLimit :
            \A n \in Level(hlinks, hjoints, k) :
                n \in DOMAIN hierarchy /\ hierarchy[n].depth = k

\* links {A,B,C}, joints A->B, B->C: roots {A}, depths A:0, B:1, C:2
C4_Witness ==
    /\ hpc = "done"
    /\ Len(hlinks) = 3
    /\ Len(hjoints) = 2
    /\ hjoints[1] = [parent |-> hlinks[1], child |-> hlinks[2]]
    /\ hjoints[2] = [parent |-> hlinks[2], child |-> hlinks[3]]
    /\ hlinks[1] # hlinks[3]
    /\ root_nodes = <<hlinks[1]>>
    /\ hierarchy[hlinks[1]].depth = 0
    /\ hierarchy[hlinks[2]].depth = 1
    /\ hierarchy[hlinks[3]].depth = 2

VisitsOf(n) == {i \in 1..Len(visitLog) : visitLog[i][1] = n}

FirstVisitDepth(n) ==
    visitLog[CHOOSE i \in VisitsOf(n) : \A k \in VisitsOf(n) : i <= k][2]

LastVisitDepth(n) ==
    visitLog[CHOOSE i \in VisitsOf(n) : \A k \in VisitsOf(n) : i >= k][2]

\* C5 as stated: when a node is reached more than once at different depths,
\* the depth stored for it after construction is the depth of the last visit.
C5_LastVisitWins ==
    hpc = "done" =>
        \A n \in DOMAIN hierarchy : hierarchy[n].depth = LastVisitDepth(n)

\* C5 amended: when a node is reached more than once at different depths, the
\* depth stored for it after construction is the depth of the first visit.
C5_FirstVisitWins ==
    hpc = "done" =>
        \A n \in DOMAIN hierarchy : hierarchy[n].depth = FirstVisitDepth(n)

\* construction ended with a node visited at two different depths
C5_Witness ==
    /\ hpc = "done"
    /\ \E n \in DOMAIN hierarchy : FirstVisitDepth(n) # LastVisitDepth(n)

\* a call of build_hierarchy beyond the limit leaves the hierarchy as it is
\* and returns at once
BeyondLimitReturns ==
    (stack # << >> /\ Top.depth > DepthLimit) =>
        (hierarchy' = hierarchy /\ stack' = Pop(stack))

\* C6: no node of the hierarchy has a depth greater than the recursion limit
\* 10, and a node met beyond the limit is neither recorded nor expanded.
C6_DepthCap ==
    /\ [](\A n \in DOMAIN hierarchy : hierarchy[n].depth <= DepthLimit)
    /\ [](\A i \in 1..Len(stack) : stack[i].depth <= DepthLimit + 1)
    /\ [][BeyondLimitReturns]_vars

\* a node at the limit has a child that was met beyond it and is not recorded
C6_Witness ==
    /\ hpc = "done"
    /\ \E n \in DOMAIN hierarchy :
        /\ hierarchy[n].depth = DepthLimit
        /\ hierarchy[n].children # << >>
        /\ hierarchy[n].children[1] \notin DOMAIN hierarchy

\* C7: hierarchy construction terminates for every list of links and joints,
\* cycles, self-loops and duplicate joints included, and raises no error: the
\* call stack stays within the recursion limit and every node whose joints
\* are scanned is a key of the hierarchy.
C7_Terminates ==
    /\ <>(hpc = "done")
    /\ [](Len(stack) <= DepthLimit + 2)
    /\ [](\A i \in 1..Len(stack) : stack[i].i >= 1 => stack[i].node \in DOMAIN hierarchy)

\* construction ended on joints that form a cycle through two links
C7_Witness ==
    /\ hpc = "done"
    /\ Len(hjoints) = 2
    /\ hjoints[1].parent # hjoints[1].child
    /\ hjoints[2].parent = hjoints[1].child
    /\ hjoints[2].child = hjoints[1].parent
    /\ hjoints[1].parent \in DOMAIN hierarchy

----------------------------------------------------------------------------
(* Claims on the line-diff analysis *)

\* C8: diff idempotence: analyze_code_changes(t, t) reports zero added, zero
\* removed and zero modified lines and an empty change-by-type mapping, for
\* every text t (counts read the way the callers read them, with default 0).
C8_DiffIdempotent ==
    (dpc = "done" /\ old_content = new_content) =>
        /\ Get(changes, "added_lines", 0) = 0
        /\ Get(changes, "removed_lines", 0) = 0
        /\ Get(changes, "modified_lines", 0) = 0
        /\ DOMAIN Get(changes, "changes_by_type", EmptyDict) = {}

\* a text of several different lines was compared with itself
C8_Witness ==
    /\ dpc = "done"
    /\ old_content = new_content
    /\ Len(old_content) >= 2
    /\ old_content[1] # old_content[2]
    /\ changes.unchanged_lines = Len(old_content)

\* C9: diff symmetry of magnitude: the added-line count of
\* analyze_code_changes(old, new) equals the removed-line count of
\* analyze_code_changes(new, old), and the removed-line count of the former
\* equals the added-line count of the latter.
C9_DiffSymmetric ==
    (dpc = "done" /\ run = 2) =>
        /\ Get(firstChanges, "added_lines", 0) = Get(changes, "removed_lines", 0)
        /\ Get(firstChanges, "removed_lines", 0) = Get(changes, "added_lines", 0)

Precedence ==
    <<"link", "joint", "visual", "collision", "origin", "geometry", "material", "name", "pose">>

MarkersOf(kind) ==
    CASE kind = "link" -> {"<link", "<LINK"}
      [] kind = "joint" -> {"<joint", "<JOINT"}
      [] kind = "visual" -> {"<visual", "<VISUAL"}
      [] kind = "collision" -> {"<collision", "<COLLISION"}
      [] kind = "origin" -> {"<origin", "<ORIGIN"}
      [] kind = "geometry" -> {"<geometry", "<GEOMETRY"}
      [] kind = "material" -> {"<material", "<MATERIAL"}
      [] kind = "name" -> {"name=\"", "NAME=\""}
      [] kind = "pose" -> {"xyz=\"", "XYZ=\"", "rpy=\"", "RPY=\""}

HasKind(line, kind) == \E i \in 1..Len(line) : line[i] \in MarkersOf(kind)

\* kind number k is the first kind, in the fixed order, the line has a marker of
IsFirstKind(line, k) ==
    /\ HasKind(line, Precedence[k])
    /\ \A h \in 1..(k - 1) : ~HasKind(line, Precedence[h])

\* the classified line changes (the first 100)
Classified(ch) ==
    {i \in 1..Len(ch.line_changes) : i <= ClassifyLimit}

\* C10: each added or removed line is classified, case-insensitively, into at
\* most one element kind, the first in the order link, joint, visual,
\* collision, origin, geometry, material, name, pose it contains a marker of;
\* old '<link name="a"/>' against new with the extra line '<link name="b"/>'
\* gives 1 added, 0 removed and change-by-type {link: 1}.
C10_Classification ==
    (dpc = "done" /\ DOMAIN changes # {}) =>
        /\ \A k \in 1..Len(Precedence) :
             Get(changes.changes_by_type, Precedence[k], 0)
               = Cardinality({i \in Classified(changes) :
                                IsFirstKind(changes.line_changes[i][2], k)})
        /\ \A key \in DOMAIN changes.changes_by_type :
             /\ \E k \in 1..Len(Precedence) : Precedence[k] = key
             /\ changes.changes_by_type[key] >= 1
        /\ (old_content = <<Line_a>> /\ new_content = <<Line_a, Line_b>>) =>
             /\ changes.added_lines = 1
             /\ changes.removed_lines = 0
             /\ changes.changes_by_type = [link |-> 1]

\* the example of C10, and an added line with an upper-case link tag and a
\* name attribute counted as link only
C10_Witness ==
    /\ dpc = "done"
    /\ \/ /\ old_content = <<Line_a>>
          /\ new_content = <<Line_a, Line_b>>
          /\ changes.changes_by_type = [link |-> 1]
       \/ /\ new_content = <<Line_a, <<"<LINK", "name=\"">> >>
          /\ changes.changes_by_type = [link |-> 1]

RECURSIVE ChangedLines(_, _)
\* the added and removed lines of the diff, in diff order
ChangedLines(d, i) ==
    IF i > Len(d) THEN << >>
    ELSE IF d[i].tag \in {"+", "-"} THEN <<d[i]>> \o ChangedLines(d, i + 1)
    ELSE ChangedLines(d, i + 1)

CountTag(d, tag) == Cardinality({i \in 1..Len(d) : d[i].tag = tag})

\* C11: only the first 100 added/removed lines, in diff order, are classified
\* by element kind; the added/removed lines after the 100th change no
\* change-by-type count and are still counted in added_lines and
\* removed_lines.
C11_FirstHundredClassified ==
    (dpc = "done" /\ DOMAIN changes # {}) =>
        LET lc == ChangedLines(diff, 1)
            scanned == {i \in 1..Len(lc) : i <= 100}
        IN  /\ \A k \in 1..Len(Precedence) :
                 Get(changes.changes_by_type, Precedence[k], 0)
                   = Cardinality({i \in scanned : IsFirstKind(lc[i].line, k)})
            /\ changes.added_lines = CountTag(diff, "+")
            /\ changes.removed_lines = CountTag(diff, "-")
            /\ changes.added_lines + changes.removed_lines = Len(lc)

\* 60 removed link lines and 101 added origin lines: 40 of the added lines
\* are classified, all 101 are counted
C11_Witness ==
    /\ dpc = "done"
    /\ run = 1
    /\ DOMAIN changes # {}
    /\ changes.removed_lines = 60
    /\ changes.added_lines > 100
    /\ changes.changes_by_type = [link |-> 60, origin |-> 40]

\* no text: the absent text or the empty one
IsNoText(content) == content \in {None, << >>}

\* C12: when the old text or the new text is empty or absent, neither diff
\* operation raises and neither produces a result: compare_commits returns
\* None and analyze_code_changes returns the empty report {}, whatever the
\* other text contains.
C12_NoDiffOfNoText ==
    /\ dpc # "raised"
    /\ cpc # "raised"
    /\ (IsNoText(old_content) \/ IsNoText(new_content)) =>
          /\ dpc \in {"start", "done"}
          /\ dpc = "done" => changes = EmptyDict
          /\ cpc = "done" => udiff = None

\* both operations returned on an empty old text and a new text of three lines
C12_Witness ==
    /\ dpc = "done"
    /\ cpc = "done"
    /\ run = 1
    /\ old_content = << >>
    /\ Len(new_content) = 3
    /\ new_content # None
    /\ udiff = None
    /\ changes = EmptyDict

----------------------------------------------------------------------------
(* Claims on geometry, origin and link category *)

\* the value is a list of numbers separated by white space, and how many
IsNumberList(value) == Floats(value).ok

NumberCount(value) == Len(Floats(value).v)

\* the tag is a box tag with a size attribute, not empty, of fewer than 3
\* numbers
IsShortBox(tag) ==
    /\ tag.k = "box"
    /\ Len(tag.attrs) >= 1
    /\ tag.attrs[1].n = "size"
    /\ tag.attrs[1].v # << >>
    /\ IsNumberList(tag.attrs[1].v)
    /\ NumberCount(tag.attrs[1].v) < 3

GeometryReturned == vfun = "parse_geometry" /\ vpc \in {"done", "raised"}

\* C13 as claimed: for every fragment whose box size attribute contains fewer
\* than 3 numbers, parse_geometry returns the default box {0.1, 0.1, 0.1},
\* whatever the numbers and whatever else the fragment holds.
C13_ShortBoxAlwaysDefault ==
    (GeometryReturned /\ \E i \in 1..Len(varg) : IsShortBox(varg[i])) =>
        (vpc = "done" /\ vresult = DefaultBox)

\* C13 as amended: for every fragment holding a box tag whose size attribute
\* is a non-empty list of fewer than 3 numbers, and no other box, cylinder or
\* sphere tag, parse_geometry returns the default box {0.1, 0.1, 0.1},
\* whatever the numbers.
C13_ShortBoxAloneDefault ==
    (GeometryReturned
        /\ \E i \in 1..Len(varg) :
              /\ IsShortBox(varg[i])
              /\ \A h \in (1..Len(varg)) \ {i} :
                    LowerTag(varg[h].k) \notin {"box", "cylinder", "sphere"}) =>
        (vpc = "done" /\ vresult = DefaultBox)

\* a box of size "1 1" alone gave the default box, in the second viewer
C13_Witness ==
    /\ GeometryReturned
    /\ viewer = "standalone"
    /\ varg = <<Tag("box", <<Attr("size", <<"1", " ", "1">>)>>)>>
    /\ vresult = DefaultBox
    /\ otherResult = DefaultBox

\* the shape an author wrote, as parse_geometry gives shapes
ShapeWritten(w) ==
    CASE w.type = "box" -> [type |-> "box", size |-> w.size]
      [] w.type = "cylinder" -> [type |-> "cylinder", radius |-> w.radius, length |-> w.length]
      [] w.type = "sphere" -> [type |-> "sphere", radius |-> w.radius]

\* C14: geometry round trip: for every fragment holding one valid box (size
\* of 3 numbers), cylinder (radius and length, in either attribute order) or
\* sphere (radius) tag, parse_geometry returns that shape type and exactly
\* the numbers written.
C14_GeometryRoundTrip ==
    (GeometryReturned /\ written.type # "raw") =>
        (vpc = "done" /\ vresult = ShapeWritten(written))

\* the fragment holds an origin tag whose xyz is a list of fewer than 3 numbers
HasShortXyz(frag) ==
    \E i \in 1..Len(frag) :
        /\ frag[i].k = "origin"
        /\ \E a \in 1..Len(frag[i].attrs) :
             /\ frag[i].attrs[a].n = "xyz"
             /\ IsNumberList(frag[i].attrs[a].v)
             /\ NumberCount(frag[i].attrs[a].v) < 3

\* C15: when the xyz attribute of an origin tag contains fewer than 3
\* numbers, parse_origin returns the whole pose as the zero default, xyz
\* [0,0,0] and rpy [0,0,0], also when a non-zero rpy is on the same tag.
C15_ShortXyzZeroPose ==
    (vfun = "parse_origin" /\ vpc \in {"done", "raised"} /\ HasShortXyz(varg)
        /\ \A i \in 1..Len(varg) : \A a \in 1..Len(varg[i].attrs) :
               IsNumberList(varg[i].attrs[a].v)) =>
        (vpc = "done" /\ vresult = DefaultOrigin)

\* C16: a malformed numeric attribute (a size, radius, length, xyz or rpy
\* value the pattern matches that is no number, such as "1.1.1" or ".")
\* never makes parse_geometry or parse_origin raise: the default value is
\* returned instead.
C16_MalformedNumberNotRaised ==
    /\ vpc # "raised"
    /\ (vpc = "done" /\ vfun = "parse_geometry" /\ Len(varg) = 1
          /\ ~IsNumberList(varg[1].attrs[1].v)) => vresult = DefaultBox
    /\ (vpc = "done" /\ vfun = "parse_origin" /\ Len(varg) = 1
          /\ ~IsNumberList(varg[1].attrs[1].v)) => vresult = DefaultOrigin

\* the rules of link categories in their order, and the spellings of a word
CategoryRules ==
    <<[words |-> {"base", "root", "chassis"}, category |-> "base"],
      [words |-> {"wheel", "caster"}, category |-> "wheel"],
      [words |-> {"camera", "sensor", "lidar"}, category |-> "sensor"],
      [words |-> {"gripper", "hand", "finger"}, category |-> "gripper"],
      [words |-> {"joint"}, category |-> "joint"],
      [words |-> {"link"}, category |-> "link"]>>

Spellings(word) ==
    CASE word = "base" -> {"base", "BASE"}
      [] word = "chassis" -> {"chassis", "Chassis"}
      [] word = "lidar" -> {"lidar", "Lidar"}
      [] word = "link" -> {"link", "LINK"}
      [] OTHER -> {word}

RuleApplies(r, name) ==
    \E w \in CategoryRules[r].words : \E i \in 1..Len(name) : name[i] \in Spellings(w)

\* the category of the first rule that applies, default when none does
CategoryOf(name) ==
    IF \E r \in 1..Len(CategoryRules) : RuleApplies(r, name)
    THEN CategoryRules[CHOOSE r \in 1..Len(CategoryRules) :
                         RuleApplies(r, name) /\ \A h \in 1..(r - 1) : ~RuleApplies(h, name)].category
    ELSE "default"

\* C20: the category of a link is that of the first rule, in the order base,
\* wheel, sensor, gripper, joint, link, that applies to its name whatever
\* the case of the letters, default when none applies; get_link_type of both
\* viewers returns the same category for the same name.
C20_LinkCategory ==
    (vfun = "get_link_type" /\ vpc = "done") =>
        /\ vresult.type = CategoryOf(varg)
        /\ viewer = "standalone" => vresult = otherResult

----------------------------------------------------------------------------
(* Claims on analyze_urdf *)

\* C17: analyze_urdf of the empty document returns zero for the links,
\* joints, visuals, collisions and lines, for every joint kind and every
\* geometry kind, leaves 'size' at its "not given" placeholder and sets no
\* 'mass'.
C17_EmptyDocumentStats ==
    (spc = "done" /\ urdf = << >>) =>
        /\ stats.links = 0
        /\ stats.joints = 0
        /\ stats.visuals = 0
        /\ stats.collisions = 0
        /\ stats.lines = 0
        /\ \A ty \in JointTypes : stats.joint_types[ty] = 0
        /\ \A g \in Geometries : stats.geometries[g] = 0
        /\ stats.size = SizeNotGiven
        /\ "mass" \notin DOMAIN stats
        /\ stats.structure.links = << >>
        /\ stats.structure.joints = << >>

\* analyze_urdf returned on the empty document
C17_Witness ==
    /\ spc = "done"
    /\ urdf = << >>
    /\ DOMAIN stats.joint_types = JointTypes
    /\ DOMAIN stats.geometries = Geometries

----------------------------------------------------------------------------
(* Claims on the content providers *)

\* C18: a provider returns the text the repository records for the file at
\* the revision asked for, or None; when the file cannot be had at that
\* revision it returns None, never the text of the working tree or of another
\* revision.
C18_ContentOfRevisionOrAbsent ==
    gpc = "done" =>
        \/ fetched = Absent
        \/ RecordedAt(sha) /\ fetched = recorded[sha]

----------------------------------------------------------------------------
(* Claims on the graph and the drawings *)

\* C19: the graph of parse_urdf_structure, the 3D view and the hierarchy
\* diagram have a node only for a declared link and an edge or line only for
\* a joint whose parent and child are both declared links.
C19_UnresolvedEdgesSkipped ==
    /\ (parser = "structure" /\ ppc = "done") =>
          /\ graph.nodes \subseteq Range(DeclaredLinks(doc))
          /\ \A e \in graph.edges :
                e.parent \in Range(DeclaredLinks(doc)) /\ e.child \in Range(DeclaredLinks(doc))
    /\ ppc = "shown" =>
          /\ Range(shown.links) \subseteq Range(DeclaredLinks(doc))
          /\ \A i \in 1..Len(shown.lines) :
                /\ shown.lines[i].parent \in Range(DeclaredLinks(doc))
                /\ shown.lines[i].child \in Range(DeclaredLinks(doc))
    /\ hpc = "drawn" =>
          /\ drawn.nodes \subseteq Range(hlinks)
          /\ \A i \in 1..Len(drawn.lines) :
                drawn.lines[i].parent \in Range(hlinks) /\ drawn.lines[i].child \in Range(hlinks)

----------------------------------------------------------------------------
(* Claims on the link entries *)

\* the first visual block of the content, opened with or without attributes:
\* the tags between its opening and its closing tag
HasVisualBlock(frag) == \E i \in 1..Len(frag) : LowerVisual(frag[i].k) = "visual"

InsideVisual(frag) ==
    LET i == CHOOSE i \in 1..Len(frag) :
                 /\ LowerVisual(frag[i].k) = "visual"
                 /\ \A h \in 1..(i - 1) : LowerVisual(frag[h].k) # "visual"
        j == CHOOSE j \in (i + 1)..Len(frag) :
                 /\ LowerVisual(frag[j].k) = "/visual"
                 /\ \A h \in (i + 1)..(j - 1) : LowerVisual(frag[h].k) # "/visual"
    IN  SubSeq(frag, i + 1, j - 1)

\* C21: the entry of a link that has a visual block holds the geometry and
\* the origin extracted from inside that block, rotation included, and the
\* defaults only when that extraction gives them.
C21_VisualBlockWins ==
    (lpc = "done" /\ HasVisualBlock(link_content)) =>
        /\ entry.geometry = ParseGeometry(lviewer, InsideVisual(link_content))
        /\ entry.origin = ParseOrigin(lviewer, InsideVisual(link_content))

\* the number of lines create_diff_html shows
ShownLines == Min(Len(diff_lines), MaxLinesShown)

\* C22: the returned markup holds one element per diff line, in the order of
\* the diff, for the first max_lines lines, then one ellipsis element when
\* the diff has more lines than that and none otherwise.
C22_OneElementPerLine ==
    tpc = "done" =>
        LET elements == diff_html.elements
            more == Len(diff_lines) > MaxLinesShown
        IN  /\ Len(elements) = ShownLines + (IF more THEN 1 ELSE 0)
            /\ \A i \in 1..ShownLines :
                   /\ elements[i].style # "ellipsis"
                   /\ elements[i].text = diff_lines[i]
            /\ more => elements[ShownLines + 1] = EllipsisDiv

\* a diff longer than max_lines was rendered and ends with the ellipsis
C22_Witness ==
    /\ tpc = "done"
    /\ Len(diff_lines) > MaxLinesShown
    /\ Len(diff_html.elements) = MaxLinesShown + 1
    /\ diff_html.elements[MaxLinesShown + 1] = EllipsisDiv

\* C23: in the report on two non-empty texts, added plus unchanged lines are
\* the lines of the new text, removed plus unchanged lines are the lines of
\* the old text, and the hint lines of the diff are counted in modified_lines
\* and nowhere else.
C23_LineConservation ==
    (dpc = "done" /\ ~Falsy(old_content) /\ ~Falsy(new_content)) =>
        /\ changes.added_lines + changes.unchanged_lines = Len(new_content)
        /\ changes.removed_lines + changes.unchanged_lines = Len(old_content)
        /\ changes.modified_lines = CountTag(diff, "?")
        /\ changes.added_lines = CountTag(diff, "+")
        /\ changes.removed_lines = CountTag(diff, "-")
        /\ changes.unchanged_lines = CountTag(diff, " ")
        /\ Len(changes.line_changes) = changes.added_lines + changes.removed_lines

\* a report on a diff with a hint line, an added, a removed and an unchanged line
C23_Witness ==
    /\ dpc = "done"
    /\ ~Falsy(old_content) /\ ~Falsy(new_content)
    /\ changes.modified_lines > 0
    /\ changes.added_lines > 0
    /\ changes.removed_lines > 0
    /\ changes.unchanged_lines > 0

\* the keys the classification can give
ChangeTypes == {"link", "joint", "visual", "collision", "origin", "geometry",
                "material", "name", "pose"}

RECURSIVE SumCounts(_, _)
\* sum(counter.values()) over the keys given
SumCounts(counter, keys) ==
    IF keys = {} THEN 0
    ELSE LET key == CHOOSE k \in keys : TRUE
         IN  counter[key] + SumCounts(counter, keys \ {key})

\* C24: in a report the counts by type add up to at most 100 and at most
\* the number of added and removed lines, every count is at least 1, and
\* the keys are among the nine element types.
C24_TypeCountsBounded ==
    (dpc = "done" /\ DOMAIN changes # {}) =>
        LET by_type == changes.changes_by_type
            total == SumCounts(by_type, DOMAIN by_type)
        IN  /\ total <= Min(ClassifyLimit, changes.added_lines + changes.removed_lines)
            /\ \A key \in DOMAIN by_type : by_type[key] >= 1
            /\ DOMAIN by_type \subseteq ChangeTypes

\* more than 100 changed lines: the counts add up to 100, fewer than the
\* added and removed lines
C24_Witness ==
    /\ dpc = "done"
    /\ DOMAIN changes # {}
    /\ changes.added_lines + changes.removed_lines > ClassifyLimit
    /\ SumCounts(changes.changes_by_type, DOMAIN changes.changes_by_type) = ClassifyLimit

\* the keys of the session that hold the comparison
ComparisonKeys == {"old_commit", "new_commit", "old_content", "new_content",
                   "show_comparison"}

\* the comparison a session holds
Comparison(state) == [key \in DOMAIN state \cap ComparisonKeys |-> state[key]]

\* the last action was a compare request with one index chosen twice or
\* with a content that is not there
RequestRefused ==
    /\ request.kind = "compare"
    /\ \/ request.old_idx = request.new_idx
       \/ Falsy(request.old_got)
       \/ Falsy(request.new_got)

\* C25: while show_comparison is set the two stored contents are not empty,
\* the two stored commits are the ones selected at two different indexes of
\* the commit list, and the old one is not dated later than the new one; a
\* compare request with one index twice or with a content missing leaves the
\* stored comparison as it was.
C25_StoredComparison ==
    /\ IsSet("show_comparison") =>
           /\ ~Falsy(session.old_content)
           /\ ~Falsy(session.new_content)
           /\ cmpFrom.old_idx # cmpFrom.new_idx
           /\ {session.old_commit, session.new_commit}
                = {cmpFrom.commits[cmpFrom.old_idx], cmpFrom.commits[cmpFrom.new_idx]}
           /\ session.old_commit.date <= session.new_commit.date
    /\ RequestRefused => Comparison(session) = Comparison(request.before)

\* a comparison stored with its two commits exchanged, a later request
\* refused
C25_Witness ==
    /\ IsSet("show_comparison")
    /\ session.old_commit = cmpFrom.commits[cmpFrom.new_idx]
    /\ session.old_commit # session.new_commit
    /\ RequestRefused
    /\ request.old_idx # request.new_idx

\* C26: the visualisation and the comparison on display were fetched for the
\* file and the commit list that are loaded now, at the place searched last,
\* and none is on display once the file list is cleared.
C26_ResultsOfLoadedFile ==
    /\ ("commits" \in DOMAIN session /\ IsSet("show_viz")) =>
           /\ "files" \in DOMAIN session
           /\ vizFrom.file = session.selected_file
           /\ vizFrom.commits = session.commits
           /\ vizFrom.place = RepoInfo
    /\ ("commits" \in DOMAIN session /\ IsSet("show_comparison")) =>
           /\ "files" \in DOMAIN session
           /\ cmpFrom.file = session.selected_file
           /\ cmpFrom.commits = session.commits
           /\ cmpFrom.place = RepoInfo

\* the pip run number i ended with exit code 0
Installed(i) == ~attempts[i].result.raised /\ attempts[i].result.returncode = 0

\* C28: start_application is called only when the version check passed and
\* every missing package was installed, in order, with exit code 0; a
\* failed pip run is the last one made, and main has returned after it
\* without starting the application.
C28_StartAfterInstall ==
    /\ started =>
           /\ version_ok
           /\ Len(attempts) = Cardinality(absent)
           /\ \A i \in 1..Len(attempts) :
                  attempts[i].package = missing[i] /\ Installed(i)
    /\ \A i \in 1..Len(attempts) :
           ~Installed(i) => /\ i = Len(attempts)
                            /\ rpc = "returned"
                            /\ ~started

\* the application started after two packages were installed
C28_Witness ==
    /\ started
    /\ Len(attempts) >= 2
    /\ Range(missing) = absent

\* C27: every declared link is a node of the hierarchy that is drawn, and the
\* node total shown is the number of distinct declared link names.
C27_EveryLinkIsNode ==
    hpc = "drawn" =>
        /\ Range(hlinks) \subseteq DOMAIN hierarchy
        /\ drawn.total = Cardinality(Range(hlinks))

\* C29: in both viewers camera_distance is never below 1.0, and after 'r'
\* the camera is at distance 5.0 and angles 45.0 and 30.0.
C29_DistanceFloorAndReset ==
    /\ camera_distance >= Dec(1, 0)
    /\ last_event = "r" =>
           /\ camera_distance = Dec(5, 0)
           /\ camera_angle_x = Dec(45, 0)
           /\ camera_angle_y = Dec(30, 0)

\* '+' pressed with the camera at distance 1.0, after the mouse was used
C29_Witness ==
    /\ last_event = "+"
    /\ camera_distance = Dec(1, 0)
    /\ mouse_down
    /\ camera_angle_x # Dec(45, 0)

\* C30: in the generated script camera_angle_y stays between -89 and 89
\* degrees.
C30_PitchWithinLimits ==
    kviewer = "embedded" =>
        /\ camera_angle_y >= 0 - Dec(89, 0)
        /\ camera_angle_y <= Dec(89, 0)

====
